---- MODULE Spec2Model ----
(***************************************************************************)
(* DNSLink resolution (dnslink-std/go, v0.4.0): the redirect resolver of   *)
(* src/dnslink.go, lines 1071-1448, with the string, URL and entry         *)
(* validation functions it is built from.                                  *)
(*                                                                         *)
(* A Go string is modelled as the sequence of its bytes (numbers 0..255),  *)
(* a map[string][]T as a function from keys to sequences, nil and the      *)
(* empty map both as the function with the empty domain.                   *)
(***************************************************************************)
EXTENDS Integers, Sequences, FiniteSets, TLC

(***************************************************************************)
(* Bytes and string literals.                                              *)
(***************************************************************************)

\* The printable ASCII characters 0x20..0x7e in code order (the two quote
\* characters 0x27 and 0x60 are spelled out: no literal of the model uses them).
AsciiTable ==
  << " ", "!", "\"", "#", "$", "%", "&", "apostrophe", "(", ")", "*", "+", ",", "-", ".", "/",
     "0", "1", "2", "3", "4", "5", "6", "7", "8", "9", ":", ";", "<", "=", ">", "?",
     "@", "A", "B", "C", "D", "E", "F", "G", "H", "I", "J", "K", "L", "M", "N", "O",
     "P", "Q", "R", "S", "T", "U", "V", "W", "X", "Y", "Z", "[", "\\", "]", "^", "_",
     "backtick", "a", "b", "c", "d", "e", "f", "g", "h", "i", "j", "k", "l", "m", "n", "o",
     "p", "q", "r", "s", "t", "u", "v", "w", "x", "y", "z", "{", "|", "}", "~" >>

\* The byte of a one-character literal.
Ord(c) == 31 + (CHOOSE i \in 1..Len(AsciiTable) : AsciiTable[i] = c)

\* The Go string written as the tuple of its characters.
Str(t) == [i \in 1..Len(t) |-> Ord(t[i])]

\* The decimal digits of a number n >= 0, as a string (strconv.Itoa).
RECURSIVE Itoa(_)
Itoa(n) == IF n < 10 THEN << 48 + n >> ELSE Itoa(n \div 10) \o << 48 + (n % 10) >>

SLASH == Ord("/")
DOT == Ord(".")
QUESTION == Ord("?")
HASH == Ord("#")
AMP == Ord("&")
EQUALS == Ord("=")
PERCENT == Ord("%")
PLUS == Ord("+")
SEMICOLON == Ord(";")
COLON == Ord(":")

(***************************************************************************)
(* The functions of package strings the resolver uses.                     *)
(***************************************************************************)

HasPrefix(s, p) == Len(s) >= Len(p) /\ SubSeq(s, 1, Len(p)) = p

HasSuffix(s, p) == Len(s) >= Len(p) /\ SubSeq(s, Len(s) - Len(p) + 1, Len(s)) = p

TrimPrefix(s, p) == IF HasPrefix(s, p) THEN SubSeq(s, Len(p) + 1, Len(s)) ELSE s

TrimSuffix(s, p) == IF HasSuffix(s, p) THEN SubSeq(s, 1, Len(s) - Len(p)) ELSE s

\* White space as strings.TrimSpace sees it in a string of ASCII bytes.
IsSpace(c) == c \in {9, 10, 11, 12, 13, 32}

RECURSIVE TrimLeftSpace(_)
TrimLeftSpace(s) ==
  IF Len(s) = 0 THEN s ELSE IF IsSpace(s[1]) THEN TrimLeftSpace(Tail(s)) ELSE s

RECURSIVE TrimRightSpace(_)
TrimRightSpace(s) ==
  IF Len(s) = 0 THEN s
  ELSE IF IsSpace(s[Len(s)]) THEN TrimRightSpace(SubSeq(s, 1, Len(s) - 1)) ELSE s

TrimSpace(s) == TrimRightSpace(TrimLeftSpace(s))

\* strings.IndexByte from position i on, 1-based; 0 when c does not occur.
RECURSIVE IndexByteFrom(_, _, _)
IndexByteFrom(s, c, i) ==
  IF i > Len(s) THEN 0 ELSE IF s[i] = c THEN i ELSE IndexByteFrom(s, c, i + 1)

IndexByte(s, c) == IndexByteFrom(s, c, 1)

Contains(s, c) == IndexByte(s, c) # 0

\* strings.Cut(s, c): what is before the first c (all of s when there is none).
CutBefore(s, c) ==
  LET i == IndexByte(s, c) IN IF i # 0 THEN SubSeq(s, 1, i - 1) ELSE s

\* strings.Cut(s, c): what is after the first c (nothing when there is none).
CutAfter(s, c) ==
  LET i == IndexByte(s, c) IN IF i # 0 THEN SubSeq(s, i + 1, Len(s)) ELSE << >>

\* strings.Split(s, c) for a one-byte separator: always at least one part.
RECURSIVE Split(_, _)
Split(s, c) ==
  LET i == IndexByte(s, c)
  IN  IF i # 0 THEN << SubSeq(s, 1, i - 1) >> \o Split(SubSeq(s, i + 1, Len(s)), c) ELSE << s >>

\* strings.Join(parts, c) for a one-byte separator.
RECURSIVE Join(_, _)
Join(parts, c) ==
  IF Len(parts) = 0 THEN << >>
  ELSE IF Len(parts) = 1 THEN parts[1]
  ELSE parts[1] \o << c >> \o Join(Tail(parts), c)

\* strings.Join(parts, "")
RECURSIVE Concat(_)
Concat(pieces) == IF Len(pieces) = 0 THEN << >> ELSE pieces[1] \o Concat(Tail(pieces))

\* Go's < on strings: bytewise lexicographic order.
RECURSIVE StrLess(_, _)
StrLess(a, b) ==
  IF Len(b) = 0 THEN FALSE
  ELSE IF Len(a) = 0 THEN TRUE
  ELSE IF a[1] # b[1] THEN a[1] < b[1]
  ELSE StrLess(Tail(a), Tail(b))

(***************************************************************************)
(* Maps (map[string][]T).                                                  *)
(***************************************************************************)

EmptyMap == << >>

MapLen(m) == Cardinality(DOMAIN m)

\* m[k] = append(m[k], v)
MapAppend(m, k, v) ==
  IF k \in DOMAIN m THEN [m EXCEPT ![k] = Append(@, v)] ELSE m @@ (k :> << v >>)

\* The map with the key left in (the delete forgotten).
MapKeep(m, k) == m

\* delete(m, k)
MapDelete(m, k) ==
  IF DOMAIN m \ {k} = {} THEN EmptyMap ELSE [x \in DOMAIN m \ {k} |-> m[x]]

(***************************************************************************)
(* The functions of package net/url the resolver uses.  url.Parse is       *)
(* modelled on the strings the resolver is run on here: no scheme and no   *)
(* colon, no percent escape, no control byte, no user info or port in a    *)
(* host (PlainURL).                                                        *)
(***************************************************************************)

IsDigit(c) == c >= 48 /\ c <= 57

IsAlnum(c) == IsDigit(c) \/ (c >= 65 /\ c <= 90) \/ (c >= 97 /\ c <= 122)

IsHex(c) == IsDigit(c) \/ (c >= 65 /\ c <= 70) \/ (c >= 97 /\ c <= 102)

Unhex(c) == IF IsDigit(c) THEN c - 48 ELSE IF c >= 97 THEN c - 97 + 10 ELSE c - 65 + 10

UpperHex(n) == IF n < 10 THEN 48 + n ELSE 65 + (n - 10)

\* url.shouldEscape(c, encodePathSegment)
ShouldEscapePathSegment(c) ==
  IF IsAlnum(c) THEN FALSE
  ELSE IF c \in {Ord("-"), Ord("_"), Ord("."), Ord("~")} THEN FALSE
  ELSE IF c \in {Ord("$"), AMP, PLUS, Ord(","), SLASH, COLON, SEMICOLON, EQUALS, QUESTION, Ord("@")}
       THEN c \in {SLASH, SEMICOLON, Ord(","), QUESTION}
  ELSE TRUE

\* url.PathEscape
RECURSIVE PathEscape(_)
PathEscape(s) ==
  IF Len(s) = 0 THEN << >>
  ELSE (IF ShouldEscapePathSegment(s[1])
        THEN << PERCENT, UpperHex(s[1] \div 16), UpperHex(s[1] % 16) >>
        ELSE << s[1] >>) \o PathEscape(Tail(s))

\* url.unescape: every %XX must be a percent sign and two hex digits.
RECURSIVE EscapesWellFormed(_)
EscapesWellFormed(s) ==
  IF Len(s) = 0 THEN TRUE
  ELSE IF s[1] = PERCENT
       THEN Len(s) >= 3 /\ IsHex(s[2]) /\ IsHex(s[3]) /\ EscapesWellFormed(SubSeq(s, 4, Len(s)))
  ELSE EscapesWellFormed(Tail(s))

\* url.unescape of a well-formed string; plusToSpace is set in query mode only.
RECURSIVE Unescape(_, _)
Unescape(s, plusToSpace) ==
  IF Len(s) = 0 THEN << >>
  ELSE IF s[1] = PERCENT
       THEN << 16 * Unhex(s[2]) + Unhex(s[3]) >> \o Unescape(SubSeq(s, 4, Len(s)), plusToSpace)
  ELSE IF s[1] = PLUS /\ plusToSpace THEN << 32 >> \o Unescape(Tail(s), plusToSpace)
  ELSE << s[1] >> \o Unescape(Tail(s), plusToSpace)

\* url.PathUnescape: [ok, value]
PathUnescape(s) ==
  IF EscapesWellFormed(s) THEN [ok |-> TRUE, value |-> Unescape(s, FALSE)]
  ELSE [ok |-> FALSE, value |-> << >>]

\* url.QueryUnescape: [ok, value]
QueryUnescape(s) ==
  IF EscapesWellFormed(s) THEN [ok |-> TRUE, value |-> Unescape(s, TRUE)]
  ELSE [ok |-> FALSE, value |-> << >>]

\* url.ParseQuery: the loop over the &-separated pairs; [m, ok], ok being
\* FALSE when ParseQuery returns an error.
RECURSIVE ParseQueryLoop(_, _, _)

\* The pair key=value once both are unescaped.
ParseQueryPair(key, value, rest, m, ok) ==
  IF ~key.ok \/ ~value.ok THEN ParseQueryLoop(rest, m, FALSE)
  ELSE ParseQueryLoop(rest, MapAppend(m, key.value, value.value), ok)

\* The piece of the query before the first ampersand, and the loop on the rest.
ParseQueryPiece(pair, rest, m, ok) ==
  IF Contains(pair, SEMICOLON) THEN ParseQueryLoop(rest, m, FALSE)
  ELSE IF Len(pair) = 0 THEN ParseQueryLoop(rest, m, ok)
  ELSE ParseQueryPair(QueryUnescape(CutBefore(pair, EQUALS)),
                      QueryUnescape(CutAfter(pair, EQUALS)), rest, m, ok)

ParseQueryLoop(query, m, ok) ==
  IF Len(query) = 0 THEN [m |-> m, ok |-> ok]
  ELSE ParseQueryPiece(CutBefore(query, AMP), CutAfter(query, AMP), m, ok)

\* What searchFromQuery makes of the result of url.ParseQuery.
searchOfParsed(parsed) == IF parsed.ok THEN parsed.m ELSE EmptyMap

searchFromQuery(query) == searchOfParsed(ParseQueryLoop(query, EmptyMap, TRUE))

\* The strings url.Parse is modelled on.
PlainURL(raw) ==
  \A i \in 1..Len(raw) : raw[i] >= 32 /\ raw[i] < 127 /\ raw[i] \notin {COLON, PERCENT, Ord("@")}

\* url.Parse once the fragment is dropped and the query split off: a leading
\* double slash starts a host, which ends at the next slash.
UrlParseRest(rest, rawQuery) ==
  LET hasHost == HasPrefix(rest, << SLASH, SLASH >>) /\ ~HasPrefix(rest, << SLASH, SLASH, SLASH >>)
      auth    == SubSeq(rest, 3, Len(rest))
  IN  [ Host     |-> IF hasHost THEN CutBefore(auth, SLASH) ELSE << >>,
        Path     |-> IF hasHost
                     THEN (IF Contains(auth, SLASH)
                           THEN SubSeq(auth, IndexByte(auth, SLASH), Len(auth)) ELSE << >>)
                     ELSE rest,
        RawQuery |-> rawQuery ]

\* url.Parse without the fragment: the query is what follows the first
\* question mark.
UrlParseNoFragment(u) == UrlParseRest(CutBefore(u, QUESTION), CutAfter(u, QUESTION))

\* url.Parse on a PlainURL: [Host, Path, RawQuery].
UrlParse(raw) == UrlParseNoFragment(CutBefore(raw, HASH))

escapePath(pathname) ==
  LET pathparts == Split(pathname, SLASH)
  IN  Join([i \in 1..Len(pathparts) |-> PathEscape(pathparts[i])], SLASH)

\* relevantURLParts once url.Parse has returned result without an error.
partsOfURL(result) ==
  LET domain   == IF Len(result.Host) # 0 THEN result.Host
                  ELSE IF Len(result.Path) # 0 THEN CutBefore(result.Path, SLASH)
                  ELSE << >>
      pathname == IF Len(result.Host) # 0 THEN result.Path
                  ELSE IF Len(result.Path) # 0 /\ Contains(result.Path, SLASH)
                       THEN << SLASH >> \o CutAfter(result.Path, SLASH)
                  ELSE << >>
  IN  [ Domain   |-> domain,
        Pathname |-> escapePath(pathname),
        Search   |-> searchFromQuery(result.RawQuery) ]

relevantURLParts(input) == partsOfURL(UrlParse(input))

(***************************************************************************)
(* Constants and records of the resolver.                                  *)
(***************************************************************************)

dnsPrefix == Str(<< "_", "d", "n", "s", "l", "i", "n", "k", "." >>)

txtPrefix == Str(<< "d", "n", "s", "l", "i", "n", "k", "=" >>)

\* The key of the redirect namespace in the map processEntries returns.
dnslinkKey == Str(<< "d", "n", "s", "l", "i", "n", "k" >>)

\* uint32's largest value is 4294967295; TLC's integers end at 2147483647, which
\* stands for it here: a TTL is only compared and copied, never added to, and
\* every TTL of a lookup table of the model is below it.
MAX_UINT_32 == 2147483647

\* The number of chain entries at which a further redirect is refused.
MaxChain == 31

minUint32(a, b) == IF a < b THEN a ELSE b

EmptyStr == << >>

LogStatement(code, domain, entry, reason, pathname, search) ==
  [ Code |-> code, Domain |-> domain, Entry |-> entry, Reason |-> reason,
    Pathname |-> pathname, Search |-> search ]

NilStatement == LogStatement("", EmptyStr, EmptyStr, "", EmptyStr, EmptyMap)

URLParts(domain, pathname, search) ==
  [ Domain |-> domain, Pathname |-> pathname, Search |-> search ]

NilURLParts == URLParts(EmptyStr, EmptyStr, EmptyMap)

LookupEntry(value, ttl) == [ Value |-> value, Ttl |-> ttl ]

\* An error value: nil, an RCodeError, another error of the lookup, or the
\* *LogStatement that resolve returns as an error for an invalid input.
NilError == [ kind |-> "nil", rcode |-> 0, stmt |-> NilStatement ]

RCodeError(rcode) == [ kind |-> "RCodeError", rcode |-> rcode, stmt |-> NilStatement ]

OtherError == [ kind |-> "error", rcode |-> 0, stmt |-> NilStatement ]

StatementError(stmt) == [ kind |-> "LogStatement", rcode |-> 0, stmt |-> stmt ]

isNotFoundError(err) == err.kind = "RCodeError" /\ err.rcode = 3

(***************************************************************************)
(* Validation of domains and of TXT entries.                               *)
(***************************************************************************)

\* The loop of testFqnd over the labels from label i on.
RECURSIVE testLabels(_, _)
testLabels(labels, i) ==
  IF i > Len(labels) THEN ""
  ELSE IF Len(labels[i]) = 0 THEN "EMPTY_PART"
  ELSE IF Len(labels[i]) > 63 THEN "TOO_LONG"
  ELSE testLabels(labels, i + 1)

testFqnd(domain) ==
  IF Len(domain) > 253 - 9 THEN "TOO_LONG" ELSE testLabels(Split(domain, DOT), 1)

\* validateDomain once the prefix and the trailing dot are off the domain.
validateStripped(urlParts, domain, reason, entry) ==
  IF reason # ""
  THEN [ ok |-> FALSE, parts |-> NilURLParts,
         error |-> LogStatement("INVALID_REDIRECT", EmptyStr, entry, reason, EmptyStr, EmptyMap) ]
  ELSE [ ok |-> TRUE,
         parts |-> URLParts(dnsPrefix \o domain, urlParts.Pathname, urlParts.Search),
         error |-> NilStatement ]

\* validateDomain on the parts of its input.
validateParts(urlParts, entry) ==
  IF HasPrefix(urlParts.Domain, dnsPrefix)
       /\ HasPrefix(TrimPrefix(urlParts.Domain, dnsPrefix), dnsPrefix)
  THEN [ ok |-> FALSE, parts |-> NilURLParts,
         error |-> LogStatement("RECURSIVE_DNSLINK_PREFIX", urlParts.Domain, EmptyStr, "",
                                urlParts.Pathname, urlParts.Search) ]
  ELSE validateStripped(urlParts,
         TrimSuffix(TrimPrefix(urlParts.Domain, dnsPrefix), << DOT >>),
         testFqnd(TrimSuffix(TrimPrefix(urlParts.Domain, dnsPrefix), << DOT >>)), entry)

\* validateDomain: [ok, parts, error]; the parts when ok, the statement when not.
validateDomain(input, entry) == validateParts(relevantURLParts(input), entry)

\* entryCharset: ^[ -~]+$
entryCharsetMatch(s) == Len(s) > 0 /\ \A i \in 1..Len(s) : s[i] >= 32 /\ s[i] <= 126

invalidEntry(reason) == [ key |-> EmptyStr, value |-> EmptyStr, error |-> reason ]

\* validateDNSLinkEntry from the split of the unescaped entry on.
validateSplit(parts, key, value) ==
  IF Len(parts) = 0 THEN invalidEntry("KEY_MISSING")
  ELSE IF Len(key) = 0 THEN invalidEntry("KEY_MISSING")
  ELSE IF Len(parts) = 1 THEN invalidEntry("NO_VALUE")
  ELSE IF Len(value) = 0 THEN invalidEntry("NO_VALUE")
  ELSE [ key |-> key, value |-> value, error |-> "" ]

\* The split with the value left as it is joined.
untrimmedValue(parts) ==
  validateSplit(parts,
                IF Len(parts) = 0 THEN EmptyStr ELSE TrimSpace(parts[1]),
                IF Len(parts) = 0 THEN EmptyStr ELSE Join(Tail(parts), SLASH))

\* parts is strings.Split(trimmed, "/")[1:]
validateSplitParts(parts) ==
  validateSplit(parts,
                IF Len(parts) = 0 THEN EmptyStr ELSE TrimSpace(parts[1]),
                IF Len(parts) = 0 THEN EmptyStr ELSE TrimSpace(Join(Tail(parts), SLASH)))

validateUnescaped(unescaped) ==
  IF ~unescaped.ok THEN invalidEntry("INVALID_ENCODING")
  ELSE validateSplitParts(Tail(Split(unescaped.value, SLASH)))

validateTrimmed(trimmed) ==
  IF ~HasPrefix(trimmed, << SLASH >>) THEN invalidEntry("WRONG_START")
  ELSE IF ~entryCharsetMatch(trimmed) THEN invalidEntry("INVALID_CHARACTER")
  ELSE validateUnescaped(PathUnescape(trimmed))

\* validateDNSLinkEntry on an entry that starts with txtPrefix: [key, value, error]
validateDNSLinkEntry(entry) ==
  validateTrimmed(TrimSpace(SubSeq(entry, Len(txtPrefix) + 1, Len(entry))))

\* A test that passes over the entries that are not valid.
hasValidDNSLinkEntry(txtEntries) ==
  \E i \in 1..Len(txtEntries) :
    /\ HasPrefix(txtEntries[i].Value, txtPrefix)
    /\ validateDNSLinkEntry(txtEntries[i].Value).error = ""

hasDNSLinkEntry(txtEntries) ==
  \E i \in 1..Len(txtEntries) : HasPrefix(txtEntries[i].Value, txtPrefix)

processedEntry(value, entry, ttl) == [ value |-> value, entry |-> entry, ttl |-> ttl ]

\* The loop of processEntries from entry i on, with the map and the log so far.
RECURSIVE processEntriesLoop(_, _, _, _)

\* The pass that returns at an invalid entry.
stopAtInvalid(dnslinkEntries, i, found, log, v) ==
  IF v.error # ""
  THEN [ found |-> found,
         log |-> Append(log, LogStatement("INVALID_ENTRY", EmptyStr, dnslinkEntries[i].Value,
                                          v.error, EmptyStr, EmptyMap)) ]
  ELSE processEntriesLoop(dnslinkEntries, i + 1,
         MapAppend(found, v.key,
                   processedEntry(v.value, dnslinkEntries[i].Value, dnslinkEntries[i].Ttl)),
         log)

\* The pass of the loop for an entry with the prefix, v being its validation.
processValidated(dnslinkEntries, i, found, log, v) ==
  IF v.error # ""
  THEN processEntriesLoop(dnslinkEntries, i + 1, found,
         Append(log, LogStatement("INVALID_ENTRY", EmptyStr, dnslinkEntries[i].Value, v.error,
                                  EmptyStr, EmptyMap)))
  ELSE processEntriesLoop(dnslinkEntries, i + 1,
         MapAppend(found, v.key,
                   processedEntry(v.value, dnslinkEntries[i].Value, dnslinkEntries[i].Ttl)),
         log)

processEntriesLoop(dnslinkEntries, i, found, log) ==
  IF i > Len(dnslinkEntries) THEN [ found |-> found, log |-> log ]
  ELSE IF ~HasPrefix(dnslinkEntries[i].Value, txtPrefix)
       THEN processEntriesLoop(dnslinkEntries, i + 1, found, log)
  ELSE processValidated(dnslinkEntries, i, found, log,
                        validateDNSLinkEntry(dnslinkEntries[i].Value))

processEntries(dnslinkEntries) == processEntriesLoop(dnslinkEntries, 1, EmptyMap, << >>)

(***************************************************************************)
(* resolveTxtEntries and getPathFromLog.                                   *)
(***************************************************************************)

\* The pass of a sort that leaves x where it is.
appendUnsorted(sorted, x) == Append(sorted, x)

\* One pass of the inner loop of the insertion sort that sort.Sort runs on a
\* slice of fewer than 12 elements: x moves left while it is Less than its
\* predecessor (ByValue.Less compares Value alone).
RECURSIVE insertByValue(_, _)
insertByValue(sorted, x) ==
  IF Len(sorted) = 0 THEN << x >>
  ELSE IF StrLess(x.Value, sorted[Len(sorted)].Value)
       THEN Append(insertByValue(SubSeq(sorted, 1, Len(sorted) - 1), x), sorted[Len(sorted)])
  ELSE Append(sorted, x)

\* sort.Sort(ByValue{list})
RECURSIVE sortByValueFrom(_, _, _)
sortByValueFrom(list, i, sorted) ==
  IF i > Len(list) THEN sorted ELSE sortByValueFrom(list, i + 1, insertByValue(sorted, list[i]))

sortByValue(list) == sortByValueFrom(list, 1, << >>)

\* The orders in which a range over a map with these keys can visit them.
KeyOrders(keys) ==
  { order \in [1..Cardinality(keys) -> keys] : \A k \in keys : \E i \in DOMAIN order : order[i] = k }

UnusedEntry(entry) == LogStatement("UNUSED_ENTRY", EmptyStr, entry, "", EmptyStr, EmptyMap)

\* The loop over the entries of the redirect namespace from entry i on.
RECURSIVE redirectLoop(_, _, _)

\* The pass in which each valid candidate replaces the one before it.
lastValidCandidate(dnsLinks, i, acc, dns, validated) ==
  IF ~validated.ok
  THEN redirectLoop(dnsLinks, i + 1, [acc EXCEPT !.log = Append(@, validated.error)])
  ELSE redirectLoop(dnsLinks, i + 1,
         [acc EXCEPT !.hasRedirect = TRUE, !.redirect = validated.parts,
                     !.redirectTtl = dns.ttl])

\* The pass that logs every candidate but the chosen one as UNUSED_ENTRY.
unusedCandidate(dnsLinks, i, acc, dns, validated) ==
  IF validated.ok /\ ~acc.hasRedirect
  THEN redirectLoop(dnsLinks, i + 1,
         [acc EXCEPT !.hasRedirect = TRUE, !.redirect = validated.parts,
                     !.redirectTtl = dns.ttl])
  ELSE redirectLoop(dnsLinks, i + 1, [acc EXCEPT !.log = Append(@, UnusedEntry(dns.entry))])

\* The pass of the loop for the entry dns, validated being its validation.
redirectCandidate(dnsLinks, i, acc, dns, validated) ==
  IF ~validated.ok
  THEN redirectLoop(dnsLinks, i + 1, [acc EXCEPT !.log = Append(@, validated.error)])
  ELSE IF ~acc.hasRedirect
  THEN redirectLoop(dnsLinks, i + 1,
         [acc EXCEPT !.hasRedirect = TRUE, !.redirect = validated.parts,
                     !.redirectTtl = dns.ttl])
  ELSE redirectLoop(dnsLinks, i + 1, [acc EXCEPT !.log = Append(@, UnusedEntry(dns.entry))])

redirectLoop(dnsLinks, i, acc) ==
  IF i > Len(dnsLinks) THEN acc
  ELSE redirectCandidate(dnsLinks, i, acc, dnsLinks[i],
                         validateDomain(dnsLinks[i].value, dnsLinks[i].entry))

RECURSIVE unusedOfFound(_, _, _)

\* One UNUSED_ENTRY statement per shadowed namespace, for its first entry.
unusedFirstOfFound(found, order, i) ==
  IF i > Len(order) THEN << >>
  ELSE << UnusedEntry(found[order[i]][1].entry) >> \o unusedOfFound(found, order, i + 1)

\* The UNUSED_ENTRY statements of the namespaces a redirect shadows, the
\* namespaces visited in this order.
unusedOfFound(found, order, i) ==
  IF i > Len(order) THEN << >>
  ELSE [j \in 1..Len(found[order[i]]) |-> UnusedEntry(found[order[i]][j].entry)]
       \o unusedOfFound(found, order, i + 1)

\* The links of the terminal hop: each namespace's entries sorted by value.
linksOfFound(found) ==
  IF DOMAIN found = {} THEN EmptyMap
  ELSE [key \in DOMAIN found |->
          sortByValue([j \in 1..Len(found[key]) |->
                         LookupEntry(found[key][j].value, found[key][j].ttl)])]

\* resolveTxtEntries after the loop over the redirect namespace, which ran
\* (followed) when recursive is set and the namespace has an entry.
resolveFound(found, followed, loop, order) ==
  IF followed /\ loop.hasRedirect
  THEN [ links |-> EmptyMap,
         log |-> loop.log \o unusedOfFound(MapDelete(found, dnslinkKey), order, 1),
         hasRedirect |-> TRUE, redirect |-> loop.redirect, redirectTtl |-> loop.redirectTtl ]
  ELSE [ links |-> linksOfFound(IF followed THEN MapDelete(found, dnslinkKey) ELSE found),
         log |-> loop.log, hasRedirect |-> FALSE, redirect |-> NilURLParts,
         redirectTtl |-> loop.redirectTtl ]

\* The entries of the namespace dnslink followed in both modes.
resolveProcessedRecursive(recursive, processed, order) ==
  resolveFound(processed.found,
               dnslinkKey \in DOMAIN processed.found,
               IF dnslinkKey \in DOMAIN processed.found
               THEN redirectLoop(processed.found[dnslinkKey], 1,
                      [ log |-> processed.log, hasRedirect |-> FALSE,
                        redirect |-> NilURLParts, redirectTtl |-> MAX_UINT_32 ])
               ELSE [ log |-> processed.log, hasRedirect |-> FALSE,
                      redirect |-> NilURLParts, redirectTtl |-> MAX_UINT_32 ],
               order)

\* resolveTxtEntries from the call of processEntries on.
resolveProcessed(recursive, processed, order) ==
  resolveFound(processed.found,
               recursive /\ dnslinkKey \in DOMAIN processed.found,
               IF recursive /\ dnslinkKey \in DOMAIN processed.found
               THEN redirectLoop(processed.found[dnslinkKey], 1,
                      [ log |-> processed.log, hasRedirect |-> FALSE,
                        redirect |-> NilURLParts, redirectTtl |-> MAX_UINT_32 ])
               ELSE [ log |-> processed.log, hasRedirect |-> FALSE,
                      redirect |-> NilURLParts, redirectTtl |-> MAX_UINT_32 ],
               order)

\* resolveTxtEntries: [links, log, hasRedirect, redirect, redirectTtl], where
\* hasRedirect says that the returned redirect is not nil.  order is the order in
\* which the range over the shadowed namespaces visits them (a Go map has none).
resolveTxtEntries(domain, recursive, txtEntries, order) ==
  IF ~hasDNSLinkEntry(txtEntries) /\ HasPrefix(domain, dnsPrefix)
  THEN [ links |-> EmptyMap, log |-> << >>, hasRedirect |-> TRUE,
         redirect |-> URLParts(SubSeq(domain, Len(dnsPrefix) + 1, Len(domain)), EmptyStr, EmptyMap),
         redirectTtl |-> MAX_UINT_32 ]
  ELSE resolveProcessed(recursive, processEntries(txtEntries), order)

\* The namespaces a redirect of this TXT set shadows.
shadowedKeys(txtEntries) == DOMAIN processEntries(txtEntries).found \ {dnslinkKey}

PathEntry(pathname, search) == [ Pathname |-> pathname, Search |-> search ]

\* The loop of getPathFromLog, which appends, and then the reversal.
RECURSIVE pathOfLog(_, _)
pathOfLog(log, i) ==
  IF i > Len(log) THEN << >>
  ELSE (IF log[i].Code \in {"REDIRECT", "RESOLVE"}
           /\ (Len(log[i].Pathname) # 0 \/ MapLen(log[i].Search) # 0)
        THEN << PathEntry(log[i].Pathname, log[i].Search) >>
        ELSE << >>) \o pathOfLog(log, i + 1)

\* The path left in log order.
Unreversed(seq) == seq

Reverse(seq) == [i \in 1..Len(seq) |-> seq[Len(seq) + 1 - i]]

getPathFromLog(log) == Reverse(pathOfLog(log, 1))

(***************************************************************************)
(* PathEntries.Reduce.  A Search is a Go map, a reference: a PathEntry     *)
(* holds the address of its map, NilRef for a nil map, and the maps stand  *)
(* in a heap, a function from addresses to maps.                           *)
(***************************************************************************)

NilRef == 0

\* An address that is not in use in h, for a map that is made during the call.
newRef(h) == CHOOSE a \in 1..(Cardinality(DOMAIN h) + 1) : a \notin DOMAIN h

DotDot == << DOT, DOT >>

\* The segments left as they are (the truncation forgotten).
keepLast(finalParts) == finalParts

\* finalParts[:len(finalParts)-1]
dropLast(finalParts) == SubSeq(finalParts, 1, Len(finalParts) - 1)

\* The truncation that leaves an empty slice empty.
truncationIgnored(finalParts) == FALSE

\* finalParts[:len(finalParts)-1] of an empty slice has the bound -1.
truncationPanics(finalParts) == Len(finalParts) = 0

\* The first loop of reducePath from part i on: the truncation of an empty
\* slice to length -1 is a run-time panic.
RECURSIVE reduceParts(_, _, _)
reduceParts(parts, i, finalParts) ==
  IF i > Len(parts) THEN [ panic |-> FALSE, parts |-> finalParts ]
  ELSE IF parts[i] = DotDot
       THEN (IF truncationPanics(finalParts) THEN [ panic |-> TRUE, parts |-> << >> ]
             ELSE reduceParts(parts, i + 1, dropLast(finalParts)))
  ELSE IF parts[i] # << DOT >> THEN reduceParts(parts, i + 1, Append(finalParts, parts[i]))
  ELSE reduceParts(parts, i + 1, finalParts)

\* The second loop of reducePath and the join.
escapedAndJoined(finalParts) ==
  Join([i \in 1..Len(finalParts) |-> PathEscape(finalParts[i])], SLASH)

\* reducePath: [panic, value].
reducePath(parts) ==
  LET reduced == reduceParts(parts, 1, << >>)
  IN  [ panic |-> reduced.panic,
        value |-> IF reduced.panic THEN EmptyStr ELSE escapedAndJoined(reduced.parts) ]

\* The values of newEntries put in the place of those of search.
overwriteAll(search, newEntries) ==
  LET keys == DOMAIN search \cup { k \in DOMAIN newEntries : Len(newEntries[k]) > 0 }
  IN  [ k \in keys |-> IF k \in DOMAIN newEntries /\ Len(newEntries[k]) > 0
                       THEN newEntries[k] ELSE search[k] ]

\* The loops of combineSearch: every value of newEntries is appended to the
\* list of its key in search.  The lists of different keys do not touch each
\* other, so the order in which range yields the keys makes no difference.
appendAll(search, newEntries) ==
  LET keys == DOMAIN search \cup { k \in DOMAIN newEntries : Len(newEntries[k]) > 0 }
  IN  [ k \in keys |-> (IF k \in DOMAIN search THEN search[k] ELSE << >>)
                         \o (IF k \in DOMAIN newEntries THEN newEntries[k] ELSE << >>) ]

\* combineSearch on the addresses of its two maps: [search, heap], the address
\* it returns and the heap it leaves.  With an empty search it returns
\* newEntries itself; otherwise it writes into the map search refers to.
combineSearch(newEntries, search, h) ==
  IF MapLen(h[search]) = 0 THEN [ search |-> newEntries, heap |-> h ]
  ELSE [ search |-> search,
         heap   |-> [h EXCEPT ![search] = appendAll(h[search], h[newEntries])] ]

\* The accumulated segments kept by an absolute pathname.
keepParts(pathParts) == pathParts

\* pathParts = []string{}
discardParts(pathParts) == << >>

\* pathParts after the entry with this pathname.
partsAfter(pathParts, pathname) ==
  IF Len(pathname) = 0 THEN pathParts
  ELSE IF HasPrefix(TrimPrefix(pathname, << SLASH >>), << SLASH >>)
       THEN discardParts(pathParts) \o Split(Tail(TrimPrefix(pathname, << SLASH >>)), SLASH)
  ELSE pathParts \o Split(TrimPrefix(pathname, << SLASH >>), SLASH)

\* search and the heap after the entry whose Search is the address ref.
searchAfter(ref, search, h) ==
  IF ref # NilRef THEN combineSearch(ref, search, h) ELSE [ search |-> search, heap |-> h ]

\* The loop of Reduce from entry i on: [pathParts, search, heap].
RECURSIVE reduceLoop(_, _, _, _)
reduceLoop(paths, i, pathParts, combined) ==
  IF i > Len(paths)
  THEN [ pathParts |-> pathParts, search |-> combined.search, heap |-> combined.heap ]
  ELSE reduceLoop(paths, i + 1, partsAfter(pathParts, paths[i].Pathname),
                  searchAfter(paths[i].Search, combined.search, combined.heap))

\* url.Parse returns an error for a string with a control character.
UrlParseFails(raw) == \E i \in 1..Len(raw) : raw[i] < 32 \/ raw[i] = 127

\* What Reduce returns once the loop is through: the PathEntry by value (the
\* map its Search refers to at the return), and the heap of the caller.
reduced(reducedPath, looped, h) ==
  [ outcome |-> IF reducedPath.panic THEN "panic" ELSE "return",
    value   |-> IF reducedPath.panic THEN PathEntry(EmptyStr, EmptyMap)
                ELSE PathEntry(reducedPath.value, looped.heap[looped.search]),
    err     |-> NilError,
    heap    |-> [ a \in DOMAIN h |-> looped.heap[a] ] ]

\* Reduce once url.Parse has returned urlParts; local is the address of the
\* map searchFromQuery makes.
reduceParsed(paths, urlParts, h, local) ==
  LET looped == reduceLoop(paths, 1, Split(urlParts.Host \o urlParts.Path, SLASH),
                           [ search |-> local,
                             heap   |-> h @@ (local :> searchFromQuery(urlParts.RawQuery)) ])
  IN  reduced(reducePath(looped.pathParts), looped, h)

\* paths.Reduce(input) on the heap h: [outcome, value, err, heap].
Reduce(paths, in, h) ==
  IF UrlParseFails(in)
  THEN [ outcome |-> "return", value |-> PathEntry(EmptyStr, EmptyMap), err |-> OtherError,
         heap |-> h ]
  ELSE reduceParsed(paths, UrlParse(in), h, newRef(h))

(***************************************************************************)
(* utf8Value: the decoding of the fragments of a TXT record.               *)
(***************************************************************************)

BACKSLASH == Ord("\\")

\* strconv.ParseUint(digits, 10, 9) with its error dropped: a value that does
\* not fit 9 bits comes back as the greatest that does.
parseUint9(digits) ==
  minUint32(100 * (digits[1] - 48) + 10 * (digits[2] - 48) + (digits[3] - 48), 511)

\* utf8ReplaceFunc on a match, a backslash and three digits: one byte, the
\* number cut to 8 bits.
utf8ReplaceFunc(match) == << parseUint9(Tail(match)) % 256 >>

\* utf8Replace matches at position i of str.
utf8ReplaceMatches(str, i) ==
  /\ i + 3 <= Len(str)
  /\ str[i] = BACKSLASH
  /\ \A j \in (i + 1)..(i + 3) : IsDigit(str[j])

\* utf8Replace.ReplaceAllFunc from position i on: the matches are taken from
\* left to right and do not overlap.
RECURSIVE replaceAllFrom(_, _)
replaceAllFrom(str, i) ==
  IF i > Len(str) THEN << >>
  ELSE IF utf8ReplaceMatches(str, i)
       THEN utf8ReplaceFunc(SubSeq(str, i, i + 3)) \o replaceAllFrom(str, i + 4)
  ELSE << str[i] >> \o replaceAllFrom(str, i + 1)

utf8Value(fragments) == replaceAllFrom(Concat(fragments), 1)

(***************************************************************************)
(* RCode and RCodeError.  The names and details are texts that are only    *)
(* copied and compared with "".  A slice indexed outside its length is a   *)
(* run-time panic.                                                         *)
(***************************************************************************)

rcodeNames ==
  << "Success", "FormErr", "ServFail", "NXDomain", "NotImp", "Refused", "YXDomain",
     "YXRRSet", "NXRRSet", "NotAuth", "NotZone", "DSOTYPENI", "", "", "", "",
     "BADVERS_BADSIG", "BADKEY", "BADTIME", "BADMODE", "BADNAME", "BADALG", "BADTRUNC",
     "BADCOOKIE" >>

rcodeDetails ==
  << "",
     "The name server was unable to interpret the query.",
     "The name server was unable to process this query due to a problem with the name server.",
     "Non-Existent Domain.",
     "The name server does not support the requested kind of query.",
     "The name server refuses to perform the specified operation for policy reasons.",
     "Name Exists when it should not.",
     "RR Set Exists when it should not.",
     "RR Set that should exist does not.",
     "Server Not Authoritative for zone  / Not Authorized.",
     "Name not contained in zone.",
     "DSO-TYPE Not Implemented.",
     "", "", "", "",
     "Bad OPT Version. / TSIG Signature Failure.",
     "Key not recognized.",
     "Signature out of time window",
     "Bad TKEY Mode.",
     "Duplicate key name.",
     "Algorithm not supported.",
     "Bad Truncation.",
     "Bad/missing Server Cookie." >>

\* slice[code]: [panic, value].
indexOf(slice, code) ==
  IF code >= 0 /\ code < Len(slice) THEN [ panic |-> FALSE, value |-> slice[code + 1] ]
  ELSE [ panic |-> TRUE, value |-> "" ]

\* RCode.Name: [panic, value].
Name(code) ==
  IF code > Len(rcodeNames) THEN [ panic |-> FALSE, value |-> "" ]
  ELSE indexOf(rcodeNames, code)

\* RCode.Detail once rcodeDetails[code] is read.
detailOf(indexed) ==
  IF ~indexed.panic /\ indexed.value = "" THEN [ panic |-> FALSE, value |-> "Undefined Error." ]
  ELSE indexed

\* RCode.Detail: [panic, value].
Detail(code) ==
  IF code > Len(rcodeDetails) THEN [ panic |-> FALSE, value |-> "Undefined Error." ]
  ELSE detailOf(indexOf(rcodeDetails, code))

\* NewRCodeError once code.Name() has returned or panicked: [panic, value].
rcodeErrorOf(rcode, name, domain) ==
  [ panic |-> name.panic,
    value |-> [ RCode |-> rcode, Name |-> name.value,
                Code |-> Str(<< "R", "C", "O", "D", "E", "_" >>) \o Itoa(rcode),
                Domain |-> domain ] ]

NewRCodeError(rcode, domain) == rcodeErrorOf(rcode, Name(rcode), domain)

(***************************************************************************)
(* The lookup tables resolve is run on.  A table is built as it is asked: *)
(* the answer for a name is chosen when the name is first looked up and    *)
(* kept (table), so that one call sees a deterministic table.              *)
(*                                                                         *)
(* Three groups of names: _dnslink.a, which answers with any sequence of   *)
(* at most MaxTxt records of RichEntries, with one of the longer sets of   *)
(* LongResponses or with an error; the names a, _dnslink.b and b, which    *)
(* answer with one of SmallResponses; and the names of the domains         *)
(* c1 .. c<NumChain>, where _dnslink.c<i> can redirect to c<i+1>, which is *)
(* what lets a chain grow past MaxChain.                                   *)
(***************************************************************************)

\* The length up to which _dnslink.a answers with every sequence of records.
MaxTxt == 2

\* The number of domains c1, c2, ... of the long chain.
NumChain == 33

DomA == Str(<< "a" >>)

DomB == Str(<< "b" >>)

ChainDom(i) == << Ord("c") >> \o Itoa(i)

Prefixed(domain) == dnsPrefix \o domain

NsIpfs == Str(<< "i", "p", "f", "s" >>)

NsIpns == Str(<< "i", "p", "n", "s" >>)

\* The TXT value dnslink=/<ns>/<id>
LinkValue(ns, id) == txtPrefix \o << SLASH >> \o ns \o << SLASH >> \o id

RedirectValue(target) == LinkValue(dnslinkKey, target)

SpfValue == Str(<< "v", "=", "s", "p", "f", "1" >>)

RichEntries ==
  { LookupEntry(SpfValue, 9),
    LookupEntry(txtPrefix, 9),
    LookupEntry(LinkValue(NsIpfs, Str(<< "Y" >>)), 8),
    LookupEntry(LinkValue(NsIpfs, Str(<< "X" >>)), 4),
    LookupEntry(LinkValue(NsIpns, Str(<< "Z" >>)), 6),
    LookupEntry(RedirectValue(Str(<< "b", "/", "p", "?", "q", "=", "1" >>)), 5),
    LookupEntry(RedirectValue(DomA), 3),
    LookupEntry(RedirectValue(Str(<< "a", ".", ".", "b" >>)), 2),
    LookupEntry(RedirectValue(dnsPrefix \o dnsPrefix \o DomB), 2) }

\* What a lookup returns: the TXT records, or an error and no record.
Found(txt) == [ txt |-> txt, err |-> NilError ]

Failed(err) == [ txt |-> << >>, err |-> err ]

SeqsUpTo(S, n) == UNION { [1..k -> S] : k \in 0..n }

\* Longer TXT sets: several redirect candidates, valid and not, among entries
\* of two other namespaces, one of them twice; and the same without a valid
\* candidate.
LongResponses ==
  { Found(<< LookupEntry(LinkValue(NsIpns, Str(<< "Z" >>)), 6),
             LookupEntry(RedirectValue(Str(<< "a", ".", ".", "b" >>)), 2),
             LookupEntry(RedirectValue(DomB), 5),
             LookupEntry(LinkValue(NsIpfs, Str(<< "Y" >>)), 8),
             LookupEntry(RedirectValue(dnsPrefix \o dnsPrefix \o DomB), 2),
             LookupEntry(RedirectValue(DomA), 3),
             LookupEntry(LinkValue(NsIpfs, Str(<< "X" >>)), 4),
             LookupEntry(LinkValue(NsIpfs, Str(<< "Y" >>)), 1) >>),
    Found(<< LookupEntry(LinkValue(NsIpns, Str(<< "Z" >>)), 6),
             LookupEntry(RedirectValue(Str(<< "a", ".", ".", "b" >>)), 2),
             LookupEntry(LinkValue(NsIpfs, Str(<< "Y" >>)), 8),
             LookupEntry(LinkValue(NsIpfs, Str(<< "X" >>)), 4),
             LookupEntry(LinkValue(NsIpfs, Str(<< "Y" >>)), 1) >>) }

RichResponses ==
  { Found(txt) : txt \in SeqsUpTo(RichEntries, MaxTxt) }
    \cup LongResponses
    \cup { Failed(RCodeError(3)), Failed(RCodeError(2)), Failed(OtherError) }

SmallResponses ==
  { Found(<< LookupEntry(LinkValue(NsIpfs, Str(<< "Y" >>)), 8),
             LookupEntry(LinkValue(NsIpfs, Str(<< "X" >>)), 4) >>),
    Found(<< LookupEntry(RedirectValue(DomA), 3) >>),
    Found(<< LookupEntry(RedirectValue(DomB), 7) >>),
    Found(<< >>),
    Failed(RCodeError(3)),
    Failed(RCodeError(2)) }

ChainResponses(i) ==
  { Found(<< LookupEntry(LinkValue(NsIpfs, Str(<< "X" >>)), 11) >>),
    Found(<< LookupEntry(RedirectValue(ChainDom(1)), 20) >>),
    Failed(RCodeError(3)),
    Failed(RCodeError(2)) }
    \cup (IF i < NumChain
          THEN { Found(<< LookupEntry(RedirectValue(ChainDom(i + 1)), 10 + (i % 3)) >>) }
          ELSE {})

ChainBareResponses ==
  { Found(<< LookupEntry(LinkValue(NsIpfs, Str(<< "Y" >>)), 8),
             LookupEntry(LinkValue(NsIpfs, Str(<< "X" >>)), 4) >>),
    Failed(RCodeError(3)) }

ChainNames == [i \in 1..NumChain |-> Prefixed(ChainDom(i))]

ChainBareNames == [i \in 1..NumChain |-> ChainDom(i)]

\* The answers a table can hold for a name; a name of no group does not exist.
Responses(name) ==
  IF name = Prefixed(DomA) THEN RichResponses
  ELSE IF name \in {DomA, Prefixed(DomB), DomB} THEN SmallResponses
  ELSE IF \E i \in 1..NumChain : name = ChainNames[i]
       THEN ChainResponses(CHOOSE i \in 1..NumChain : name = ChainNames[i])
  ELSE IF \E i \in 1..NumChain : name = ChainBareNames[i] THEN ChainBareResponses
  ELSE { Failed(RCodeError(3)) }

\* The domains resolve is called with.
Inputs ==
  { Str(<< "a", "/", "p", "?", "k", "=", "v" >>),
    dnsPrefix \o DomB \o << DOT >>,
    ChainDom(1),
    dnsPrefix \o dnsPrefix \o DomA,
    Str(<< "a", ".", ".", "b" >>) }

(***************************************************************************)
(* resolve, one action per pass of its loop.                               *)
(***************************************************************************)

VARIABLES
  input,      \* the domain resolve is called with
  recursive,  \* TRUE for ResolveN, FALSE for Resolve
  pc,         \* "start", "loop" (at the head of the for loop) or "done" (returned)
  lookup,     \* the URLParts of the domain to look up next
  ttl,        \* the running minimum of the TTLs of the redirects taken
  chain,      \* the set of keys of the chain map
  result,     \* the Result: Links, Path, Log
  err,        \* the error resolve returns
  table,      \* the lookup table as far as it has been asked
  hops,       \* one record per call of lookupTXT, in call order
  heap,       \* the Search maps of the PathEntries Reduce is called on, by address
  earlier     \* what the earlier calls of Reduce on these PathEntries returned

vars ==
  << input, recursive, pc, lookup, ttl, chain, result, err, table, hops, heap, earlier >>

Init ==
  /\ input \in Inputs
  /\ recursive \in BOOLEAN
  /\ pc = "start"
  /\ lookup = NilURLParts
  /\ ttl = MAX_UINT_32
  /\ chain = {}
  /\ result = [ Links |-> EmptyMap, Path |-> << >>, Log |-> << >> ]
  /\ err = NilError
  /\ table = EmptyMap
  /\ hops = << >>
  /\ heap = EmptyMap
  /\ earlier = << >>

\* resolve up to its loop: the input domain is valid and the loop is entered,
\* or resolve returns the statement of validateDomain as its error.
Validated(v) ==
  /\ pc' = IF v.ok THEN "loop" ELSE "done"
  /\ lookup' = IF v.ok THEN v.parts ELSE lookup
  /\ err' = IF v.ok THEN err ELSE StatementError(v.error)
  /\ UNCHANGED << input, recursive, ttl, chain, result, table, hops, heap, earlier >>

Begin ==
  /\ pc = "start"
  /\ Validated(validateDomain(input, EmptyStr))

\* The lookup capability on the table.
lookupTXT(name) == IF name \in DOMAIN table THEN { table[name] } ELSE Responses(name)

\* The links with the TTLs of their own records (the clamp forgotten).
unclampedLinks(links, min) == links

\* The TTL clamp of the terminal hop.
clampLinks(links, min) ==
  IF DOMAIN links = {} THEN EmptyMap
  ELSE [key \in DOMAIN links |->
          [i \in 1..Len(links[key]) |->
             LookupEntry(links[key][i].Value, minUint32(links[key][i].Ttl, min))]]

\* The condition that lets an error that is no RCodeError pass.
rcodeErrorIsFatal(error, domain) ==
  error.kind = "RCodeError" /\ ~(isNotFoundError(error) /\ HasPrefix(domain, dnsPrefix))

\* The condition without the exception for NXDOMAIN.
anyErrorIsFatal(error, domain) == error.kind # "nil"

\* The condition under which resolve returns the error of the lookup.
isFatal(error, domain) ==
  error.kind # "nil" /\ ~(isNotFoundError(error) /\ HasPrefix(domain, dnsPrefix))

\* chain[redirect.Domain]
inChain(visited, redirect) == redirect.Domain \in visited

\* The test of the chain length that never holds.
chainNeverFull(visited) == FALSE

\* The test of the chain length one domain late.
chainIsFullLate(visited) == Cardinality(visited) = MaxChain + 1

\* len(chain) == 31
chainIsFull(visited) == Cardinality(visited) = MaxChain

\* The log after a followed redirect with RESOLVE before REDIRECT.
logOfResolveAndRedirect(log, resolve) ==
  log \o << resolve, [resolve EXCEPT !.Code = "REDIRECT"] >>

\* The log after a followed redirect: the REDIRECT statement of the hop.
logOfRedirect(log, resolve) == Append(log, [resolve EXCEPT !.Code = "REDIRECT"])

\* The refusal logged with the parts of the current domain in place of the
\* target's.
logOfRefusalOfCurrent(log, resolve, code, redirect) ==
  log \o << resolve, [resolve EXCEPT !.Code = code] >>

\* The log after a refused redirect: RESOLVE, then the statement with the code
\* (ENDLESS_REDIRECT or TOO_MANY_REDIRECTS) and the parts of the target.
logOfRefusal(log, resolve, code, redirect) ==
  log \o << resolve,
            LogStatement(code, redirect.Domain, EmptyStr, "", redirect.Pathname, redirect.Search) >>

\* A fatal lookup error that leaves the log as it is.
logOfErrorUnchanged(log, resolve) == log

\* The log after a fatal lookup error: the RESOLVE statement of the domain.
logOfError(log, resolve) == Append(log, resolve)

\* A refused redirect that returns the path of the log as well.
resultOfRefusalWithPath(res, log) == [res EXCEPT !.Log = log, !.Path = getPathFromLog(log)]

\* The Result returned after a refused redirect: the log, with the links and
\* the path as resolve initialised them.
resultOfRefusal(res, log) == [res EXCEPT !.Log = log]

\* The statements of resolveTxtEntries put before the log.
prependPartialLog(log, partialLog) == partialLog \o log

\* result.Log = append(result.Log, partialLog...)
appendPartialLog(log, partialLog) == log \o partialLog

\* One pass of the loop of resolve, the lookup answering resp and
\* resolveTxtEntries returning r: the way the pass ends (outcome) and the values
\* it leaves.
LoopBodyOn(resp, r) ==
  LET domain  == lookup.Domain
      resolve == LogStatement("RESOLVE", domain, EmptyStr, "", lookup.Pathname, lookup.Search)
      log1    == appendPartialLog(result.Log, r.log)
      ttl1    == minUint32(ttl, r.redirectTtl)
      same    == [ outcome |-> "", lookup |-> lookup, ttl |-> ttl, chain |-> chain,
                   result |-> result, err |-> NilError ]
  IN  IF isFatal(resp.err, domain)
      THEN [same EXCEPT !.outcome = "error", !.chain = chain \cup {domain},
                        !.result.Log = logOfError(result.Log, resolve), !.err = resp.err]
      ELSE IF ~r.hasRedirect
      THEN [same EXCEPT !.outcome = "done",
                        !.result = [ Links |-> clampLinks(r.links, ttl),
                                     Path  |-> getPathFromLog(Append(log1, resolve)),
                                     Log   |-> Append(log1, resolve) ]]
      ELSE IF inChain(chain, r.redirect)
      THEN [same EXCEPT !.outcome = "endless", !.ttl = ttl1,
                        !.result = resultOfRefusal(result,
                                     logOfRefusal(log1, resolve, "ENDLESS_REDIRECT", r.redirect))]
      ELSE IF chainIsFull(chain)
      THEN [same EXCEPT !.outcome = "toomany", !.ttl = ttl1,
                        !.result = resultOfRefusal(result,
                                     logOfRefusal(log1, resolve, "TOO_MANY_REDIRECTS", r.redirect))]
      ELSE [same EXCEPT !.outcome = "redirect", !.ttl = ttl1, !.chain = chain \cup {domain},
                        !.result.Log = logOfRedirect(log1, resolve),
                        !.lookup = r.redirect]

LoopBody(resp, order) ==
  LoopBodyOn(resp, resolveTxtEntries(lookup.Domain, recursive, resp.txt, order))

\* The pass of the loop leaving the values of body.
PassTo(resp, body) ==
  /\ lookup' = body.lookup
  /\ ttl' = body.ttl
  /\ chain' = body.chain
  /\ result' = body.result
  /\ err' = body.err
  /\ pc' = IF body.outcome = "redirect" THEN "loop" ELSE "done"
  /\ table' = IF lookup.Domain \in DOMAIN table THEN table
              ELSE table @@ (lookup.Domain :> resp)
  /\ hops' = Append(hops, [ domain   |-> lookup.Domain,
                            response |-> resp,
                            outcome  |-> body.outcome,
                            chainLen |-> Cardinality(chain),
                            ttlIn    |-> ttl,
                            logFrom  |-> Len(result.Log) ])

\* One pass of the loop of resolve: the lookup of the current domain and what
\* resolve does with its answer.
Pass ==
  /\ pc = "loop"
  /\ \E resp \in lookupTXT(lookup.Domain) :
       \E order \in KeyOrders(shadowedKeys(resp.txt)) :
         PassTo(resp, LoopBody(resp, order))
  /\ UNCHANGED << input, recursive, heap, earlier >>

Next ==
  \/ Begin
  \/ Pass

Spec == Init /\ [][Next]_vars

TypeOK ==
  /\ pc \in {"start", "loop", "done"}
  /\ recursive \in BOOLEAN
  /\ input \in Inputs

(***************************************************************************)
(* The lookup function NewUDPLookup returns.  The reply of client.Exchange *)
(* is an input: an error, or a message with a response code and the        *)
(* records of its answer section.                                          *)
(***************************************************************************)

\* A record of the answer section: its type, its TTL and, for a TXT record,
\* its fragments.
Answer(rrtype, fragments, seconds) ==
  [ Rrtype |-> rrtype, Txt |-> fragments, Ttl |-> seconds ]

\* entries[index] after the pass of the loop for answer: the element make()
\* has zeroed stays as it is for a record that is no TXT record.
entryOfAnswer(answer) ==
  IF answer.Rrtype = "TXT" THEN LookupEntry(utf8Value(answer.Txt), answer.Ttl)
  ELSE LookupEntry(EmptyStr, 0)

\* The lookup function once the domain ends with a dot: [panic, value].
lookupOfReply(domain, res) ==
  IF res.failed THEN [ panic |-> FALSE, value |-> Failed(OtherError) ]
  ELSE IF res.Rcode # 0
       THEN [ panic |-> NewRCodeError(res.Rcode, domain).panic,
              value |-> Failed(RCodeError(res.Rcode)) ]
  ELSE [ panic |-> FALSE,
         value |-> Found(sortByValue([i \in DOMAIN res.Answer |-> entryOfAnswer(res.Answer[i])])) ]

UDPLookup(domain, res) ==
  lookupOfReply(IF HasSuffix(domain, << DOT >>) THEN domain ELSE domain \o << DOT >>, res)

(***************************************************************************)
(* The functions of the package called on their own: input holds the       *)
(* function and its arguments, result the value returned, pc is "call"     *)
(* before and "return" after the call.  The other variables are not used.  *)
(***************************************************************************)

\* The greatest length of the TXT sets processEntries is called with.
MaxEntries == 3

SPACE == Ord(" ")

\* TXT values: without the prefix (one with the prefix after a space), with
\* the prefix and invalid for each reason, and valid ones of two namespaces,
\* one with spaces to trim.
EntryValues ==
  { SpfValue,
    << SPACE >> \o LinkValue(NsIpfs, Str(<< "X" >>)),
    txtPrefix,
    txtPrefix \o << SLASH >>,
    txtPrefix \o << SLASH >> \o NsIpfs,
    txtPrefix \o << SLASH >> \o NsIpfs \o << SLASH, PERCENT >>,
    txtPrefix \o << SLASH >> \o NsIpfs \o << SLASH, 233 >>,
    LinkValue(NsIpfs, Str(<< "Y" >>)),
    LinkValue(NsIpfs, Str(<< "X" >>)),
    LinkValue(NsIpns, Str(<< "Z" >>)),
    txtPrefix \o << SPACE, SLASH, SPACE >> \o NsIpfs \o << SPACE, SLASH, SPACE >>
      \o Str(<< "X" >>) \o << SPACE >> }

\* The TTL of the record at position i of a set.
TtlAt(i) == 10 * i

EntrySets ==
  { [i \in DOMAIN vals |-> LookupEntry(vals[i], TtlAt(i))] :
      vals \in SeqsUpTo(EntryValues, MaxEntries) }

\* The greatest number of pieces after dnslink= in the entries
\* validateDNSLinkEntry is called with.
MaxPieces == 5

\* The pieces: a slash, a space, a letter, and the escapes of a space and of
\* a percent sign.
EntryPieces ==
  { << SLASH >>, << SPACE >>, Str(<< "a" >>),
    Str(<< "%", "2", "0" >>), Str(<< "%", "2", "5" >>) }

EntryStrings == { txtPrefix \o Concat(pieces) : pieces \in SeqsUpTo(EntryPieces, MaxPieces) }

\* The greatest length of the logs getPathFromLog is called with.
MaxLog == 3

PathP == Str(<< "/", "p" >>)

PathQ == Str(<< "/", "q" >>)

SearchK == Str(<< "k" >>) :> << Str(<< "v" >>) >>

\* Statements: RESOLVE and REDIRECT with a pathname, a search, both and
\* neither, and statements of other codes with and without them.
LogStatements ==
  { LogStatement("RESOLVE", DomA, EmptyStr, "", PathP, EmptyMap),
    LogStatement("RESOLVE", DomA, EmptyStr, "", EmptyStr, EmptyMap),
    LogStatement("REDIRECT", DomB, EmptyStr, "", EmptyStr, SearchK),
    LogStatement("REDIRECT", DomB, EmptyStr, "", PathQ, SearchK),
    LogStatement("REDIRECT", DomB, EmptyStr, "", EmptyStr, EmptyMap),
    LogStatement("ENDLESS_REDIRECT", DomA, EmptyStr, "", PathQ, SearchK),
    LogStatement("RECURSIVE_DNSLINK_PREFIX", DomA, EmptyStr, "", PathP, EmptyMap),
    UnusedEntry(LinkValue(NsIpfs, Str(<< "X" >>))) }

Logs == SeqsUpTo(LogStatements, MaxLog)

\* The greatest number of path entries Reduce is called on.
MaxPaths == 3

SearchKW == Str(<< "k" >>) :> << Str(<< "w" >>), Str(<< "x" >>) >>

SearchJK == (Str(<< "j" >>) :> << Str(<< "u" >>) >>) @@ (Str(<< "k" >>) :> << Str(<< "y" >>) >>)

\* A path entry of the pool: its pathname and its Search, a nil map or the
\* map search.
EntryOf(pathname, isNil, search) == [ Pathname |-> pathname, isNil |-> isNil, Search |-> search ]

\* Path entries: relative and absolute pathnames, with dots, with a space,
\* without a leading slash and of slashes only; no Search, an empty one, and
\* Searches with keys in common, with lists as url.ParseQuery makes them (no
\* key without a value).
ReduceEntries ==
  { EntryOf(Str(<< "/", "b", "a", "z" >>), TRUE, EmptyMap),
    EntryOf(Str(<< "/", "/", "q", "/", ".", ".", "/", "r" >>), FALSE, SearchJK),
    EntryOf(Str(<< "/", ".", ".", "/", ".", ".", "/", ".", "/", "m" >>), TRUE, EmptyMap),
    EntryOf(Str(<< "/", "/", ".", "." >>), TRUE, EmptyMap),
    EntryOf(Str(<< "/", "a", " ", "b" >>), FALSE, EmptyMap),
    EntryOf(Str(<< "q", "u", "x" >>), FALSE, SearchK),
    EntryOf(Str(<< "/" >>), TRUE, EmptyMap),
    EntryOf(Str(<< "/", "/", "/", "x" >>), TRUE, EmptyMap),
    EntryOf(EmptyStr, FALSE, SearchKW) }

\* The inputs of Reduce: a path with and without dots, with a query, with a
\* host and a fragment, the empty string, a path that climbs past its start,
\* and a string url.Parse rejects.
ReduceInputs ==
  { Str(<< "f", "o", "o" >>),
    Str(<< "f", "o", "o", "/", ".", ".", "/", "b", "/", ".", "/", "c" >>),
    Str(<< "f", "?", "k", "=", "v", "&", "j", "=", "t", "&", "k", "=", "x" >>),
    Str(<< "/", "/", "h", "/", "p", "?", "j", "=", "t", "#", "f" >>),
    EmptyStr,
    Str(<< ".", "." >>),
    << 9 >> }

\* The PathEntries of a sequence of entries of the pool: the map of entry i is
\* at the address i.
PathsOf(entries) ==
  [ i \in DOMAIN entries |->
      PathEntry(entries[i].Pathname, IF entries[i].isNil THEN NilRef ELSE i) ]

HeapOf(entries) ==
  [ i \in { j \in DOMAIN entries : ~entries[j].isNil } |-> entries[i].Search ]

\* The greatest number of fragments of the TXT records utf8Value is called
\* with.
MaxFragments == 4

\* Fragments: a backslash, digits of a byte, of a number past a byte and past
\* 9 bits, a letter and a quote.
Fragments ==
  { << BACKSLASH >>, Str(<< "0", "6", "5" >>), Str(<< "3", "0", "0" >>), Str(<< "9" >>),
    Str(<< "a" >>), Str(<< "\"" >>) }

\* The greatest number of records in the answer section of a reply.
MaxAnswers == 3

\* Records: TXT records of one and of two fragments, one with a digit escape,
\* two that differ in the TTL alone, and a CNAME record.
Answers ==
  { Answer("TXT", << LinkValue(NsIpfs, Str(<< "X" >>)) >>, 60),
    Answer("TXT", << LinkValue(NsIpfs, Str(<< "X" >>)) >>, 30),
    Answer("TXT", << txtPrefix, Str(<< "/", "a", "/", "\\", "0", "6", "5" >>) >>, 20),
    Answer("TXT", << SpfValue >>, 10),
    Answer("CNAME", << >>, 300) }

Reply(failed, rcode, answer) == [ failed |-> failed, Rcode |-> rcode, Answer |-> answer ]

\* Replies: the answers of a success, failures of the server and of the
\* exchange.
Replies ==
  { Reply(FALSE, 0, answer) : answer \in SeqsUpTo(Answers, MaxAnswers) }
    \cup { Reply(FALSE, 3, << >>), Reply(FALSE, 24, << >>), Reply(TRUE, 0, << >>) }

\* The greatest response code NewRCodeError and Detail are called with.
MaxRCode == 26

Call(fn, arg) == [ fn |-> fn, arg |-> arg ]

FnInputs ==
  { Call("processEntries", txt) : txt \in EntrySets }
    \cup { Call("validateDNSLinkEntry", entry) : entry \in EntryStrings }
    \cup { Call("getPathFromLog", log) : log \in Logs }
    \cup { Call("NewRCodeError", [ rcode |-> n, domain |-> d ]) :
             n \in 0..MaxRCode, d \in { DomA, Prefixed(DomB) } }
    \cup { Call("Detail", n) : n \in 0..MaxRCode }
    \cup { Call("utf8Value", txt) : txt \in SeqsUpTo(Fragments, MaxFragments) }
    \cup { Call("UDPLookup", [ domain |-> d, res |-> res ]) :
             d \in { Prefixed(DomA), DomB \o << DOT >> }, res \in Replies }

\* A call of Reduce with its heap (input.arg.maps records the maps as they are
\* at the first call), or a call of a function without one.
FnCall ==
  \/ /\ input \in FnInputs
     /\ heap = EmptyMap
  \/ \E entries \in SeqsUpTo(ReduceEntries, MaxPaths), in \in ReduceInputs :
       /\ input = Call("Reduce", [ paths |-> PathsOf(entries), input |-> in,
                                   maps |-> HeapOf(entries) ])
       /\ heap = HeapOf(entries)

FnInit ==
  /\ FnCall
  /\ earlier = << >>
  /\ pc = "call"
  /\ result = << >>
  /\ recursive = FALSE
  /\ lookup = NilURLParts
  /\ ttl = MAX_UINT_32
  /\ chain = {}
  /\ err = NilError
  /\ table = EmptyMap
  /\ hops = << >>

\* The call returns value.
Return(value) ==
  /\ pc' = "return"
  /\ result' = value
  /\ UNCHANGED << input, recursive, lookup, ttl, chain, err, table, hops, heap, earlier >>

CallProcessEntries ==
  /\ pc = "call"
  /\ input.fn = "processEntries"
  /\ Return(processEntries(input.arg))

CallValidateDNSLinkEntry ==
  /\ pc = "call"
  /\ input.fn = "validateDNSLinkEntry"
  /\ Return(validateDNSLinkEntry(input.arg))

CallGetPathFromLog ==
  /\ pc = "call"
  /\ input.fn = "getPathFromLog"
  /\ Return(getPathFromLog(input.arg))

\* The call returns called.value or panics.
ReturnOrPanic(called) ==
  Return([ outcome |-> IF called.panic THEN "panic" ELSE "return", value |-> called.value ])

CallNewRCodeError ==
  /\ pc = "call"
  /\ input.fn = "NewRCodeError"
  /\ ReturnOrPanic(NewRCodeError(input.arg.rcode, input.arg.domain))

CallDetail ==
  /\ pc = "call"
  /\ input.fn = "Detail"
  /\ ReturnOrPanic(Detail(input.arg))

CallUtf8Value ==
  /\ pc = "call"
  /\ input.fn = "utf8Value"
  /\ Return(utf8Value(input.arg))

CallUDPLookup ==
  /\ pc = "call"
  /\ input.fn = "UDPLookup"
  /\ ReturnOrPanic(UDPLookup(input.arg.domain, input.arg.res))

\* The call of Reduce returns or panics with reduction; the maps of the
\* path entries are left as the call left them.
Reduced(reduction) ==
  /\ result' = [ outcome |-> reduction.outcome, value |-> reduction.value, err |-> reduction.err ]
  /\ heap' = reduction.heap
  /\ UNCHANGED << input, recursive, lookup, ttl, chain, err, table, hops >>

CallReduce ==
  /\ pc = "call"
  /\ input.fn = "Reduce"
  /\ pc' = "return"
  /\ earlier' = earlier
  /\ Reduced(Reduce(input.arg.paths, input.arg.input, heap))

\* A second call of Reduce on the same PathEntries with the same input, after
\* the first has returned.
CallReduceAgain ==
  /\ pc = "return"
  /\ input.fn = "Reduce"
  /\ result.outcome = "return"
  /\ pc' = "again"
  /\ earlier' = Append(earlier, result)
  /\ Reduced(Reduce(input.arg.paths, input.arg.input, heap))

FnNext ==
  \/ CallProcessEntries
  \/ CallValidateDNSLinkEntry
  \/ CallGetPathFromLog
  \/ CallReduce
  \/ CallReduceAgain
  \/ CallNewRCodeError
  \/ CallDetail
  \/ CallUtf8Value
  \/ CallUDPLookup

FnSpec == FnInit /\ [][FnNext]_vars

\* input.fn was called and has returned.
Called(fn) == pc = "return" /\ input.fn = fn

(***************************************************************************)
(* What the checked properties say of a run, read off the records of the   *)
(* lookups made (hops), the table and the Result.                          *)
(***************************************************************************)

Returned == pc = "done"

LastOf(seq) == seq[Len(seq)]

MinOf(S) == CHOOSE x \in S : \A y \in S : x <= y

\* The statements hop k wrote to the log.
HopLog(k) ==
  SubSeq(result.Log, hops[k].logFrom + 1,
         IF k < Len(hops) THEN hops[k + 1].logFrom ELSE Len(result.Log))

\* The domains looked up before hop k.
ChainBefore(k) == { hops[j].domain : j \in 1..(k - 1) }

\* A TXT record that is a valid DNSLink entry, its namespace and identifier.
IsValidEntry(e) ==
  HasPrefix(e.Value, txtPrefix) /\ validateDNSLinkEntry(e.Value).error = ""

NamespaceOf(e) == validateDNSLinkEntry(e.Value).key

IdentifierOf(e) == validateDNSLinkEntry(e.Value).value

\* A redirect candidate: a valid entry of the namespace dnslink; it is a valid
\* candidate when its identifier passes validateDomain.
IsCandidate(e) == IsValidEntry(e) /\ NamespaceOf(e) = dnslinkKey

CandidateCheck(e) == validateDomain(IdentifierOf(e), e.Value)

IsValidCandidate(e) == IsCandidate(e) /\ CandidateCheck(e).ok

ValidCandidates(txt) == { i \in DOMAIN txt : IsValidCandidate(txt[i]) }

\* A lookup (a record with the domain and the response) that orders the implicit
\* redirect to the bare domain: the name has the prefix, and the lookup found
\* no record with dnslink= or failed with NXDOMAIN.
IsNXDomain(h) == h.response.err = RCodeError(3)

IsFallback(h) ==
  /\ HasPrefix(h.domain, dnsPrefix)
  /\ h.response.err = NilError \/ IsNXDomain(h)
  /\ \A i \in DOMAIN h.response.txt : ~HasPrefix(h.response.txt[i].Value, txtPrefix)

\* A lookup of ResolveN whose records hold a valid redirect candidate.
IsExplicit(h) ==
  /\ recursive
  /\ h.response.err = NilError
  /\ ValidCandidates(h.response.txt) # {}

ChoosesRedirect(h) == IsFallback(h) \/ IsExplicit(h)

\* The redirect the lookup chooses: the bare domain, or the first valid
\* candidate in record order.
ChosenTarget(h) ==
  IF IsFallback(h)
  THEN URLParts(SubSeq(h.domain, Len(dnsPrefix) + 1, Len(h.domain)), EmptyStr, EmptyMap)
  ELSE CandidateCheck(h.response.txt[MinOf(ValidCandidates(h.response.txt))]).parts

\* The table's record for name redirects to target.
RedirectsTo(name, target) ==
  /\ name \in DOMAIN table
  /\ IsExplicit([domain |-> name, response |-> table[name]])
  /\ ChosenTarget([domain |-> name, response |-> table[name]]).Domain = target

\* hop k was followed: the next lookup is, or will be, that of the target.
Followed(k, target) ==
  /\ Len(HopLog(k)) > 0
  /\ LastOf(HopLog(k)).Code = "REDIRECT"
  /\ LastOf(HopLog(k)).Domain = hops[k].domain
  /\ IF k < Len(hops) THEN hops[k + 1].domain = target.Domain
     ELSE pc = "loop" /\ lookup = target

\* hop k was the last, and the log ends with RESOLVE for its domain and the
\* statement with the code for the target.
Refused(k, code, target) ==
  /\ k = Len(hops)
  /\ Returned
  /\ err = NilError
  /\ Len(result.Log) >= 2
  /\ result.Log[Len(result.Log) - 1].Code = "RESOLVE"
  /\ result.Log[Len(result.Log) - 1].Domain = hops[k].domain
  /\ LastOf(result.Log) =
       LogStatement(code, target.Domain, EmptyStr, "", target.Pathname, target.Search)

(***************************************************************************)
(* C1                                                                      *)
(***************************************************************************)

\* The run started at the first of two domains whose records redirect to each
\* other.
TwoCycle ==
  /\ Len(hops) >= 2
  /\ hops[1].domain # hops[2].domain
  /\ RedirectsTo(hops[1].domain, hops[2].domain)
  /\ RedirectsTo(hops[2].domain, hops[1].domain)

\* C1: ResolveN on the first of two domains whose records redirect to each
\* other has returned once both were looked up: two lookups were made, the error
\* is nil, and the log ends with RESOLVE for the second domain and
\* ENDLESS_REDIRECT for the first, the redirect back not being followed.
C1_CycleEndsEndless ==
  TwoCycle =>
    /\ Returned
    /\ Len(hops) = 2
    /\ Refused(2, "ENDLESS_REDIRECT", ChosenTarget(hops[2]))
    /\ LastOf(result.Log).Domain = hops[1].domain

C1_Witness ==
  /\ Returned
  /\ TwoCycle
  /\ LastOf(result.Log).Code = "ENDLESS_REDIRECT"

(***************************************************************************)
(* C2                                                                      *)
(***************************************************************************)

\* C2 (as the code has it): a call of resolve makes at most 32 lookups, the
\* 31 whose redirect it follows and the one after them.
C2_AtMost32Lookups == Len(hops) <= MaxChain + 1

\* C2 as stated: a call of resolve makes at most 31 lookups.
C2_AtMost31Lookups == Len(hops) <= MaxChain

C2_Witness ==
  /\ Returned
  /\ Len(hops) = MaxChain + 1
  /\ Cardinality(chain) = MaxChain

(***************************************************************************)
(* C3                                                                      *)
(***************************************************************************)

\* What C3 says of hop k when it chooses the redirect to target.
RefusedWhenFullOn(k, target) ==
  target.Domain \notin ChainBefore(k) =>
    IF Cardinality(ChainBefore(k)) = MaxChain
    THEN Refused(k, "TOO_MANY_REDIRECTS", target)
    ELSE Cardinality(ChainBefore(k)) < MaxChain /\ Followed(k, target)

RefusedWhenFull(k) ==
  ChoosesRedirect(hops[k]) => RefusedWhenFullOn(k, ChosenTarget(hops[k]))

\* C3: a hop that chooses a redirect to a domain not in the chain is the last
\* when the chain holds 31 domains (the log ends with RESOLVE for its domain
\* and TOO_MANY_REDIRECTS for the target, the error is nil, no lookup follows),
\* and is followed when the chain holds fewer.
C3_TooManyAt31 == \A k \in 1..Len(hops) : RefusedWhenFull(k)

C3_Witness ==
  /\ Returned
  /\ Len(hops) = MaxChain + 1
  /\ ChoosesRedirect(hops[MaxChain + 1])
  /\ Cardinality(ChainBefore(MaxChain + 1)) = MaxChain
  /\ LastOf(result.Log).Code = "TOO_MANY_REDIRECTS"

(***************************************************************************)
(* C4                                                                      *)
(***************************************************************************)

\* The records of hop k that are valid entries of the namespace ns.
LinkRecords(k, ns) ==
  { j \in DOMAIN hops[k].response.txt :
      /\ IsValidEntry(hops[k].response.txt[j])
      /\ NamespaceOf(hops[k].response.txt[j]) = ns }

\* The TTL of the redirect record the lookup chooses.
ChosenTtl(h) == h.response.txt[MinOf(ValidCandidates(h.response.txt))].Ttl

\* The TTLs of the redirect records chosen before hop k.
RedirectTtls(k) == { ChosenTtl(hops[j]) : j \in { i \in 1..(k - 1) : IsExplicit(hops[i]) } }

\* The links entry the record e of hop k is returned as.
ExpectedLink(e, k) == LookupEntry(IdentifierOf(e), MinOf({ e.Ttl } \cup RedirectTtls(k)))

\* The number of times x occurs in seq.
Occurrences(seq, x) == Cardinality({ i \in DOMAIN seq : seq[i] = x })

\* The links of the namespace ns are the valid entries of ns among the records
\* of hop k, each with its expected TTL, as many times as it occurs.
LinksAreRecordsOf(k, ns) ==
  \A x \in { result.Links[ns][i] : i \in DOMAIN result.Links[ns] }
          \cup { ExpectedLink(hops[k].response.txt[j], k) : j \in LinkRecords(k, ns) } :
    Occurrences(result.Links[ns], x) =
      Cardinality({ j \in LinkRecords(k, ns) : ExpectedLink(hops[k].response.txt[j], k) = x })

\* C4: in a Result ResolveN returns with a nil error, each links entry has the
\* TTL that is the minimum of the TTL of its own TXT record and the TTLs of the
\* redirect records chosen on the way, and so is not greater than any of these.
C4_MinimumTtl ==
  (Returned /\ recursive /\ err = NilError) =>
    \A ns \in DOMAIN result.Links :
      /\ LinksAreRecordsOf(Len(hops), ns)
      /\ \A i \in DOMAIN result.Links[ns] :
           \A t \in RedirectTtls(Len(hops)) : result.Links[ns][i].Ttl <= t

\* A returned link whose TTL is that of a redirect record, below the TTL of
\* each record of its namespace.
C4_Witness ==
  /\ Returned /\ recursive /\ err = NilError
  /\ \E ns \in DOMAIN result.Links :
       \E i \in DOMAIN result.Links[ns] :
         /\ result.Links[ns][i].Ttl \in RedirectTtls(Len(hops))
         /\ \A j \in LinkRecords(Len(hops), ns) :
              hops[Len(hops)].response.txt[j].Ttl > result.Links[ns][i].Ttl

(***************************************************************************)
(* C5                                                                      *)
(***************************************************************************)

\* The call returned the links of its last lookup: nil error, no redirect chosen.
Terminal ==
  /\ Returned
  /\ err = NilError
  /\ Len(hops) >= 1
  /\ ~ChoosesRedirect(LastOf(hops))

\* The last lookup returned an entry of the namespace dnslink.
LastHasCandidate ==
  \E j \in DOMAIN LastOf(hops).response.txt : IsCandidate(LastOf(hops).response.txt[j])

\* C5 (as the code has it): the links of a Result of ResolveN have no key
\* dnslink; Resolve leaves the namespace alone, and returns links with the key
\* dnslink exactly when the TXT records it resolved hold a valid entry of it.
C5_NoRedirectLinksInResolveN ==
  /\ recursive => dnslinkKey \notin DOMAIN result.Links
  /\ (~recursive /\ Terminal) => (dnslinkKey \in DOMAIN result.Links <=> LastHasCandidate)

\* C5 as stated: no Result, of ResolveN or of Resolve, has links with the key
\* dnslink.
C5_NoRedirectLinks == Returned => dnslinkKey \notin DOMAIN result.Links

\* ResolveN returned the links of records that hold an entry of the namespace.
C5_Witness ==
  /\ recursive
  /\ Terminal
  /\ LastHasCandidate
  /\ result.Links # EmptyMap

(***************************************************************************)
(* C6                                                                      *)
(***************************************************************************)

\* Hop k of ResolveN interprets the records of its lookup.
Interprets(k) ==
  /\ recursive
  /\ hops[k].response.err = NilError
  /\ ~IsFallback(hops[k])

\* The entries of the redirect namespace among the records of hop k.
Candidates(k) ==
  { j \in DOMAIN hops[k].response.txt : IsCandidate(hops[k].response.txt[j]) }

FirstValid(k) == MinOf(ValidCandidates(hops[k].response.txt))

\* Hop k ended with the redirect to target chosen: followed, or refused as
\* endless or as one too many.
Chose(k, target) ==
  \/ Followed(k, target)
  \/ Refused(k, "ENDLESS_REDIRECT", target)
  \/ Refused(k, "TOO_MANY_REDIRECTS", target)

\* Hop k ended the resolution with the links of its records.
EndedAt(k) ==
  /\ k = Len(hops)
  /\ Returned
  /\ err = NilError
  /\ LastOf(result.Log).Code = "RESOLVE"
  /\ LastOf(result.Log).Domain = hops[k].domain

\* The target of hop k is its first valid candidate in record order, and
\* without a valid candidate the hop is terminal.
FirstValidWins(k) ==
  IF ValidCandidates(hops[k].response.txt) = {}
  THEN EndedAt(k)
  ELSE Chose(k, CandidateCheck(hops[k].response.txt[FirstValid(k)]).parts)

\* hop k logged INVALID_REDIRECT with the raw entry e and a reason.
LoggedInvalidRedirect(k, e) ==
  \E i \in DOMAIN HopLog(k) :
    /\ HopLog(k)[i].Code = "INVALID_REDIRECT"
    /\ HopLog(k)[i].Entry = e.Value
    /\ HopLog(k)[i].Reason \in {"EMPTY_PART", "TOO_LONG"}

\* The domain the identifier of the candidate e names.
CandidateDomain(e) == relevantURLParts(IdentifierOf(e)).Domain

\* hop k logged RECURSIVE_DNSLINK_PREFIX with the domain of the candidate e,
\* and neither entry nor reason.
LoggedRecursivePrefix(k, e) ==
  \E i \in DOMAIN HopLog(k) :
    /\ HopLog(k)[i].Code = "RECURSIVE_DNSLINK_PREFIX"
    /\ HopLog(k)[i].Domain = CandidateDomain(e)
    /\ HopLog(k)[i].Entry = EmptyStr
    /\ HopLog(k)[i].Reason = ""

\* The invalid candidates of hop k.
InvalidCandidates(k) == { j \in Candidates(k) : ~IsValidCandidate(hops[k].response.txt[j]) }

\* C6 (as the code has it): in ResolveN the target of a hop is the first entry
\* of the redirect namespace, in the order of the TXT records, whose value
\* passes validateDomain, and without such an entry the hop is terminal; a
\* candidate that fails is logged with the statement validateDomain returns,
\* which is RECURSIVE_DNSLINK_PREFIX with the domain, and neither entry nor
\* reason, when the domain has the prefix twice, and INVALID_REDIRECT with the
\* raw entry and the reason otherwise.
C6_FirstValidCandidate ==
  \A k \in 1..Len(hops) :
    Interprets(k) =>
      /\ FirstValidWins(k)
      /\ \A j \in InvalidCandidates(k) :
           IF HasPrefix(CandidateDomain(hops[k].response.txt[j]), dnsPrefix \o dnsPrefix)
           THEN /\ LoggedRecursivePrefix(k, hops[k].response.txt[j])
                /\ ~LoggedInvalidRedirect(k, hops[k].response.txt[j])
           ELSE LoggedInvalidRedirect(k, hops[k].response.txt[j])

\* C6 as stated: every candidate that fails is logged INVALID_REDIRECT with
\* the raw entry and the reason.
C6_InvalidRedirectLogged ==
  \A k \in 1..Len(hops) :
    Interprets(k) =>
      /\ FirstValidWins(k)
      /\ \A j \in InvalidCandidates(k) : LoggedInvalidRedirect(k, hops[k].response.txt[j])

\* A hop with two valid candidates after an invalid one, and a candidate with
\* the prefix twice.
C6_Witness ==
  \E k \in 1..Len(hops) :
    /\ Interprets(k)
    /\ Cardinality(ValidCandidates(hops[k].response.txt)) >= 2
    /\ \E j \in InvalidCandidates(k) : j < FirstValid(k)
    /\ \E j \in InvalidCandidates(k) :
         HasPrefix(CandidateDomain(hops[k].response.txt[j]), dnsPrefix \o dnsPrefix)

(***************************************************************************)
(* C7                                                                      *)
(***************************************************************************)

\* The number of UNUSED_ENTRY statements hop k logged for the raw entry.
UnusedCount(k, entry) == Occurrences(HopLog(k), UnusedEntry(entry))

\* Hop k of ResolveN chooses one of the candidates of its records.
ChoosesCandidate(k) == Interprets(k) /\ ValidCandidates(hops[k].response.txt) # {}

\* The candidates of txt but the first of valid are logged as UNUSED_ENTRY by
\* hop k when valid, once per record, and not when invalid.
OthersUnused(k, txt, valid, first) ==
  \A j \in Candidates(k) :
    UnusedCount(k, txt[j].Value) =
      Cardinality({ i \in valid \ { first } : txt[i].Value = txt[j].Value })

\* C7 (as the code has it): when a hop chooses a redirect target, every other
\* entry of the redirect namespace whose value is a valid domain is logged as
\* UNUSED_ENTRY, once per record; an entry whose value is not a valid domain is
\* not logged as UNUSED_ENTRY.
C7_OtherValidCandidatesUnused ==
  \A k \in 1..Len(hops) :
    ChoosesCandidate(k) =>
      OthersUnused(k, hops[k].response.txt, ValidCandidates(hops[k].response.txt),
                   FirstValid(k))

\* C7 as stated: every other entry of the redirect namespace, valid or not, is
\* logged as UNUSED_ENTRY.
C7_OtherCandidatesUnused ==
  \A k \in 1..Len(hops) :
    ChoosesCandidate(k) =>
      \A j \in Candidates(k) \ { FirstValid(k) } :
        UnusedCount(k, hops[k].response.txt[j].Value) >= 1

\* A hop that chooses a target beside another valid and an invalid candidate.
C7_Witness ==
  \E k \in 1..Len(hops) :
    /\ ChoosesCandidate(k)
    /\ Cardinality(ValidCandidates(hops[k].response.txt)) >= 2
    /\ InvalidCandidates(k) # {}

(***************************************************************************)
(* C8                                                                      *)
(***************************************************************************)

\* The valid entries of the other namespaces among the records of hop k.
Shadowed(k) ==
  { j \in DOMAIN hops[k].response.txt :
      /\ IsValidEntry(hops[k].response.txt[j])
      /\ NamespaceOf(hops[k].response.txt[j]) # dnslinkKey }

\* C8: when a hop chooses a redirect target, every valid entry of the other
\* namespaces among its records is logged as UNUSED_ENTRY with the raw entry,
\* once per record; and links are returned by the terminal hop alone: they are
\* empty unless the last hop chose no redirect, and then each is the identifier
\* of a record of that hop.
C8_ShadowedEntriesUnused ==
  /\ \A k \in 1..Len(hops) :
       ChoosesCandidate(k) =>
         \A j \in Shadowed(k) :
           UnusedCount(k, hops[k].response.txt[j].Value) =
             Cardinality({ i \in Shadowed(k) :
                             hops[k].response.txt[i].Value = hops[k].response.txt[j].Value })
  /\ recursive =>
       IF Terminal
       THEN \A ns \in DOMAIN result.Links :
              \A i \in DOMAIN result.Links[ns] :
                \E j \in LinkRecords(Len(hops), ns) :
                  IdentifierOf(LastOf(hops).response.txt[j]) = result.Links[ns][i].Value
       ELSE result.Links = EmptyMap

\* A hop chose a target beside entries of another namespace, and the terminal
\* hop after it returned links.
C8_Witness ==
  /\ Terminal
  /\ result.Links # EmptyMap
  /\ \E k \in 1..(Len(hops) - 1) : ChoosesCandidate(k) /\ Shadowed(k) # {}

(***************************************************************************)
(* C9                                                                      *)
(***************************************************************************)

IsTrailStatement(stmt) == stmt.Code \in {"RESOLVE", "REDIRECT"}

\* The RESOLVE and REDIRECT statements of the log, in order: code and domain.
Trail ==
  [i \in DOMAIN SelectSeq(result.Log, IsTrailStatement) |->
     << SelectSeq(result.Log, IsTrailStatement)[i].Code,
        SelectSeq(result.Log, IsTrailStatement)[i].Domain >>]

\* The log holds RESOLVE for the domain of hop k and, when the redirect of the
\* hop was followed, REDIRECT for the domain after it.
ResolveThenRedirect(k) ==
  \E i \in DOMAIN Trail :
    /\ Trail[i] = << "RESOLVE", hops[k].domain >>
    /\ k < Len(hops) =>
         \E j \in DOMAIN Trail : j > i /\ Trail[j] = << "REDIRECT", hops[k].domain >>

\* C9 (as the code has it): the log holds one statement per domain looked up,
\* in lookup order: REDIRECT, and no RESOLVE, for each domain whose redirect
\* was followed, and RESOLVE for the last domain, where resolve returned; so
\* that _dnslink.a.com redirecting to b.com yields, in order, REDIRECT
\* _dnslink.a.com, RESOLVE _dnslink.b.com.
C9_RedirectsThenResolve ==
  Trail = [k \in 1..Len(hops) |->
             IF k = Len(hops) /\ Returned
             THEN << "RESOLVE", hops[k].domain >>
             ELSE << "REDIRECT", hops[k].domain >>]

\* C9 as stated: every domain looked up has a RESOLVE statement in the returned
\* log, followed by REDIRECT for the domain when its redirect was followed.
C9_ResolvePerLookup ==
  Returned => \A k \in 1..Len(hops) : ResolveThenRedirect(k)

\* A call that followed the redirect of a record and returned at the target.
C9_Witness ==
  /\ Returned
  /\ Len(hops) = 2
  /\ ChoosesCandidate(1)
  /\ Terminal

(***************************************************************************)
(* C10                                                                     *)
(***************************************************************************)

\* The domain of hop k without the prefix.
Bare(k) == SubSeq(hops[k].domain, Len(dnsPrefix) + 1, Len(hops[k].domain))

\* The lookup of hop k, of a name with the prefix, failed with NXDOMAIN.
NotFoundAt(k) == HasPrefix(hops[k].domain, dnsPrefix) /\ IsNXDomain(hops[k])

\* What C10 says of hop k, the lookup of _dnslink.d: the call goes on to the
\* lookup of d, having logged REDIRECT for _dnslink.d; and when that lookup
\* ends the resolution, the error is nil, the links are those of the records of
\* d and the log ends with RESOLVE for d.
FallsBack(k) ==
  /\ Followed(k, URLParts(Bare(k), EmptyStr, EmptyMap))
  /\ HopLog(k) = << LogStatement("REDIRECT", hops[k].domain, EmptyStr, "",
                                 HopLog(k)[1].Pathname, HopLog(k)[1].Search) >>
  /\ (Len(hops) = k + 1 /\ Returned /\ ~ChoosesRedirect(hops[k + 1])
        /\ hops[k + 1].response.err = NilError) =>
       /\ err = NilError
       /\ LastOf(result.Log).Code = "RESOLVE"
       /\ LastOf(result.Log).Domain = Bare(k)
       /\ DOMAIN result.Links =
            { ns \in { NamespaceOf(hops[k + 1].response.txt[j]) :
                         j \in { i \in DOMAIN hops[k + 1].response.txt :
                                   IsValidEntry(hops[k + 1].response.txt[i]) } } :
                ~recursive \/ ns # dnslinkKey }
       /\ \A ns \in DOMAIN result.Links :
            \A x \in { result.Links[ns][i].Value : i \in DOMAIN result.Links[ns] }
                     \cup { IdentifierOf(hops[k + 1].response.txt[j]) : j \in LinkRecords(k + 1, ns) } :
              Cardinality({ i \in DOMAIN result.Links[ns] : result.Links[ns][i].Value = x }) =
                Cardinality({ j \in LinkRecords(k + 1, ns) :
                                IdentifierOf(hops[k + 1].response.txt[j]) = x })

FatalAt(k) ==
  /\ hops[k].response.err # NilError
  /\ ~(IsNXDomain(hops[k]) /\ HasPrefix(hops[k].domain, dnsPrefix))

\* C11: a lookup that fails, unless with NXDOMAIN on a name with the prefix, is
\* the last: resolve has returned the error of the lookup, and the log is the
\* log before the lookup with RESOLVE for the failing domain after it.
C11_LookupErrorReturned ==
  \A k \in 1..Len(hops) :
    FatalAt(k) =>
      /\ k = Len(hops)
      /\ Returned
      /\ err = hops[k].response.err
      /\ Len(result.Log) = hops[k].logFrom + 1
      /\ LastOf(result.Log).Code = "RESOLVE"
      /\ LastOf(result.Log).Domain = hops[k].domain
      /\ result.Links = EmptyMap

\* A lookup failed after a redirect was followed.
C11_Witness ==
  /\ Returned
  /\ Len(hops) >= 2
  /\ FatalAt(Len(hops))
  /\ err # NilError
  /\ Len(result.Log) >= 2

(***************************************************************************)
(* C12                                                                     *)
(***************************************************************************)

\* The hostname of the input carries the prefix twice.
InputPrefixedTwice == HasPrefix(relevantURLParts(input).Domain, dnsPrefix \o dnsPrefix)

\* C12: resolve on an input whose hostname carries the prefix twice makes no
\* lookup and returns a nil error, empty links, an empty path and a log that
\* holds the RECURSIVE_DNSLINK_PREFIX statement.
C12_PrefixTwiceLogged ==
  (Returned /\ InputPrefixedTwice) =>
    /\ Len(hops) = 0
    /\ err = NilError
    /\ result.Links = EmptyMap
    /\ result.Path = << >>
    /\ \E i \in DOMAIN result.Log : result.Log[i].Code = "RECURSIVE_DNSLINK_PREFIX"

\* What resolve does on such an input: no lookup, the statement returned as
\* the error, and an empty log.
C12_PrefixTwiceReturnedAsError ==
  (Returned /\ InputPrefixedTwice) =>
    /\ Len(hops) = 0
    /\ err.kind = "LogStatement"
    /\ err.stmt.Code = "RECURSIVE_DNSLINK_PREFIX"
    /\ err.stmt.Domain = relevantURLParts(input).Domain
    /\ result = [Links |-> EmptyMap, Path |-> << >>, Log |-> << >>]

(***************************************************************************)
(* C13                                                                     *)
(***************************************************************************)

\* The elements of seq at the positions in S, in the order of seq.
RECURSIVE PickFrom(_, _, _)
PickFrom(seq, S, i) ==
  IF i > Len(seq) THEN << >>
  ELSE (IF i \in S THEN << seq[i] >> ELSE << >>) \o PickFrom(seq, S, i + 1)

Pick(seq, S) == PickFrom(seq, S, 1)

\* The positions of txt with the prefix that fail validation, those that pass
\* it, and those that pass it with the namespace ns.
InvalidAt(txt) ==
  { i \in DOMAIN txt :
      HasPrefix(txt[i].Value, txtPrefix) /\ validateDNSLinkEntry(txt[i].Value).error # "" }

ValidAt(txt) == { i \in DOMAIN txt : IsValidEntry(txt[i]) }

ValidOf(txt, ns) == { i \in ValidAt(txt) : NamespaceOf(txt[i]) = ns }

InvalidEntryStatement(e) ==
  LogStatement("INVALID_ENTRY", EmptyStr, e.Value, validateDNSLinkEntry(e.Value).error,
               EmptyStr, EmptyMap)

ProcessedOf(e) == processedEntry(IdentifierOf(e), e.Value, e.Ttl)

\* What C13 says of processEntries(txt) = out.
EachEntryHandledOnce(txt, out) ==
  /\ out.log = [n \in DOMAIN Pick(txt, InvalidAt(txt)) |->
                  InvalidEntryStatement(Pick(txt, InvalidAt(txt))[n])]
  /\ DOMAIN out.found = { NamespaceOf(txt[i]) : i \in ValidAt(txt) }
  /\ \A ns \in DOMAIN out.found :
       out.found[ns] = [n \in DOMAIN Pick(txt, ValidOf(txt, ns)) |->
                          ProcessedOf(Pick(txt, ValidOf(txt, ns))[n])]

\* C13: processEntries handles each entry of a TXT set in one of three ways
\* and goes on to the next: without the prefix dnslink= it leaves no trace; with
\* the prefix and failing validation it gives one INVALID_ENTRY statement with
\* the raw entry and the reason, in order, and no entry of the map; valid, it
\* is appended to the list of its namespace, in order.
C13_EachEntryHandledOnce ==
  Called("processEntries") => EachEntryHandledOnce(input.arg, result)

\* A set with an invalid entry followed by two valid ones of one namespace.
C13_Witness ==
  /\ Called("processEntries")
  /\ Len(result.log) = 1
  /\ \E ns \in DOMAIN result.found : Len(result.found[ns]) = 2
  /\ \E j \in InvalidAt(input.arg) : \A v \in ValidAt(input.arg) : j < v

(***************************************************************************)
(* C14                                                                     *)
(***************************************************************************)

\* The string has no white space at either end.
IsTrimmed(str) == Len(str) = 0 \/ (~IsSpace(str[1]) /\ ~IsSpace(str[Len(str)]))

\* The entry dnslink=/ns/id built from a pair.
Serialized(ns, id) == txtPrefix \o << SLASH >> \o ns \o << SLASH >> \o id

\* Validating the entry built from the pair of an accepted entry gives the pair.
RoundTrips(v) == validateDNSLinkEntry(Serialized(v.key, v.value)) = v

\* C14 (as the code has it): the namespace and the identifier of an accepted
\* entry have no surrounding white space; and when the entry holds no percent
\* sign, validating dnslink=/ns/id built from the pair returns the pair again.
\* (validateDNSLinkEntry decodes percent escapes, and the pair is built into
\* the new entry decoded.)
C14_RoundTripWithoutEscapes ==
  (Called("validateDNSLinkEntry") /\ result.error = "") =>
    /\ IsTrimmed(result.key)
    /\ IsTrimmed(result.value)
    /\ ~Contains(input.arg, PERCENT) => RoundTrips(result)

\* C14 as stated: for every accepted entry the pair has no surrounding white
\* space and validating dnslink=/ns/id built from it returns the pair again.
C14_RoundTrip ==
  (Called("validateDNSLinkEntry") /\ result.error = "") =>
    /\ IsTrimmed(result.key)
    /\ IsTrimmed(result.value)
    /\ RoundTrips(result)

\* An accepted entry without escapes whose identifier was trimmed.
C14_Witness ==
  /\ Called("validateDNSLinkEntry")
  /\ result.error = ""
  /\ ~Contains(input.arg, PERCENT)
  /\ Serialized(result.key, result.value) # input.arg

(***************************************************************************)
(* C15                                                                     *)
(***************************************************************************)

\* The values of the list do not decrease.
IsSortedByValue(list) ==
  \A i \in DOMAIN list : \A j \in DOMAIN list : i < j => ~StrLess(list[j].Value, list[i].Value)

\* The namespaces of the valid entries among the records of hop k.
NamespacesAt(k) ==
  { NamespaceOf(hops[k].response.txt[j]) : j \in ValidAt(hops[k].response.txt) }

\* The list holds the identifiers of the valid entries of ns among the records
\* of hop k, each as many times as it occurs there.
HoldsEntriesOf(list, k, ns) ==
  /\ Len(list) = Cardinality(LinkRecords(k, ns))
  /\ \A j \in LinkRecords(k, ns) :
       Cardinality({ i \in DOMAIN list : list[i].Value = IdentifierOf(hops[k].response.txt[j]) }) =
         Cardinality({ i \in LinkRecords(k, ns) :
                         IdentifierOf(hops[k].response.txt[i]) = IdentifierOf(hops[k].response.txt[j]) })

\* C15: in a Result returned with a nil error by the hop that chose no
\* redirect, links has the namespaces of the valid entries of the records of
\* that hop (but dnslink in ResolveN), and the list of each is in non-decreasing
\* order of value and holds exactly the valid entries of the namespace,
\* duplicates kept.
C15_LinksSortedAndComplete ==
  Terminal =>
    /\ DOMAIN result.Links =
         { ns \in NamespacesAt(Len(hops)) : ~recursive \/ ns # dnslinkKey }
    /\ \A ns \in DOMAIN result.Links :
         /\ IsSortedByValue(result.Links[ns])
         /\ HoldsEntriesOf(result.Links[ns], Len(hops), ns)

\* Links of records that came in decreasing order of value, one value twice.
C15_Witness ==
  /\ Terminal
  /\ \E ns \in DOMAIN result.Links :
       /\ Len(result.Links[ns]) >= 3
       /\ \E i \in DOMAIN result.Links[ns] : result.Links[ns][i].Value = result.Links[ns][i + 1].Value
       /\ \E i \in LinkRecords(Len(hops), ns) : \E j \in LinkRecords(Len(hops), ns) :
            /\ i < j
            /\ StrLess(IdentifierOf(LastOf(hops).response.txt[j]),
                       IdentifierOf(LastOf(hops).response.txt[i]))

(***************************************************************************)
(* C16                                                                     *)
(***************************************************************************)

\* A RESOLVE or REDIRECT statement with a pathname or a search.
Contributes(stmt) ==
  /\ stmt.Code \in {"RESOLVE", "REDIRECT"}
  /\ stmt.Pathname # EmptyStr \/ DOMAIN stmt.Search # {}

ContributingAt(log) == { i \in DOMAIN log : Contributes(log[i]) }

\* path holds one entry per contributing statement of log, the last first.
IsReversedPathOf(path, contributing) ==
  /\ Len(path) = Len(contributing)
  /\ \A n \in DOMAIN path :
       path[n] = PathEntry(contributing[Len(contributing) + 1 - n].Pathname,
                           contributing[Len(contributing) + 1 - n].Search)

\* C16: getPathFromLog returns one PathEntry for each RESOLVE or REDIRECT
\* statement of the log with a non-empty pathname or search, none for any other
\* statement, in reverse of log order.
C16_PathReversesLog ==
  Called("getPathFromLog") =>
    IsReversedPathOf(result, Pick(input.arg, ContributingAt(input.arg)))

\* A log with two different contributing statements and one of another code
\* that has a pathname.
C16_Witness ==
  /\ Called("getPathFromLog")
  /\ Len(result) = 2
  /\ result[1] # result[2]
  /\ \E i \in DOMAIN input.arg :
       ~Contributes(input.arg[i]) /\ input.arg[i].Pathname # EmptyStr

(***************************************************************************)
(* Reduce: the path.                                                       *)
(***************************************************************************)

\* Reduce was called once and url.Parse accepted the input.
ReduceRan == Called("Reduce") /\ result.err = NilError

IsAbsolute(pathname) == HasPrefix(pathname, << SLASH, SLASH >>)

AbsoluteAt(paths) == { i \in DOMAIN paths : IsAbsolute(paths[i].Pathname) }

MaxOf(S) == CHOOSE x \in S : \A y \in S : y <= x

Range(seq) == { seq[i] : i \in DOMAIN seq }

\* The segments an entry contributes: those of its pathname without the
\* double slash of an absolute one, or without the leading slash, if any, of
\* another; none for an empty pathname.
OwnSegments(pathname) ==
  IF pathname = EmptyStr THEN << >>
  ELSE IF IsAbsolute(pathname) THEN Split(SubSeq(pathname, 3, Len(pathname)), SLASH)
  ELSE IF pathname[1] = SLASH THEN Split(Tail(pathname), SLASH)
  ELSE Split(pathname, SLASH)

\* The segments of the entries from entry i on, in the order of the entries.
RECURSIVE SegmentsFrom(_, _)
SegmentsFrom(paths, i) ==
  IF i > Len(paths) THEN << >>
  ELSE OwnSegments(paths[i].Pathname) \o SegmentsFrom(paths, i + 1)

\* The segments of the input: its path, after the host if it has one, without
\* query and fragment.
InputSegments(in) == Split(UrlParse(in).Host \o UrlParse(in).Path, SLASH)

\* The position of the segment that the .. at position i removes, scanning
\* to the left from position j: the nearest one that no .. in between has
\* removed; 0 if there is none.  skip counts the .. between j and i that
\* still look for their segment.
RECURSIVE Removed(_, _, _)
Removed(segments, j, skip) ==
  IF j = 0 THEN 0
  ELSE IF segments[j] = << DOT >> THEN Removed(segments, j - 1, skip)
  ELSE IF segments[j] = DotDot THEN Removed(segments, j - 1, skip + 1)
  ELSE IF skip > 0 THEN Removed(segments, j - 1, skip - 1)
  ELSE j

DotDotsAt(segments) == { i \in DOMAIN segments : segments[i] = DotDot }

\* Some .. has no preceding surviving segment to remove.
ClimbsPastStart(segments) ==
  \E i \in DotDotsAt(segments) : Removed(segments, i - 1, 0) = 0

\* The positions of the segments that survive the reduction.
Surviving(segments) ==
  { j \in DOMAIN segments :
      /\ segments[j] \notin { << DOT >>, DotDot }
      /\ \A i \in DotDotsAt(segments) : Removed(segments, i - 1, 0) # j }

\* The path of the surviving segments, each escaped, joined with slashes.
PathOfSegments(segments) ==
  Join([n \in 1..Cardinality(Surviving(segments)) |->
          PathEscape(Pick(segments, Surviving(segments))[n])], SLASH)

\* The call ends as the reduction of these segments says: it gives their
\* path, unless a .. climbs past the start, when the call fails at run time.
ReducesTo(segments) ==
  /\ result.outcome = "panic" <=> ClimbsPastStart(segments)
  /\ result.outcome = "return" => result.value.Pathname = PathOfSegments(segments)

\* C17: in Reduce a path entry whose pathname starts with // is absolute:
\* the segments of the input and of the entries before it are discarded, and
\* the path of the result is the reduction of the segments of the last absolute
\* entry and of the entries after it.
C17_AbsoluteEntryRestartsPath ==
  ReduceRan /\ AbsoluteAt(input.arg.paths) # {}
    => ReducesTo(SegmentsFrom(input.arg.paths, MaxOf(AbsoluteAt(input.arg.paths))))

\* An input with a path, an entry with a pathname, an absolute entry and an
\* entry with a pathname after it, and a result that has a path.
C17_Witness ==
  /\ ReduceRan
  /\ result.outcome = "return"
  /\ result.value.Pathname # EmptyStr
  /\ input.arg.input # EmptyStr
  /\ Len(input.arg.paths) = 3
  /\ AbsoluteAt(input.arg.paths) = {2}
  /\ \A i \in {1, 3} : input.arg.paths[i].Pathname # EmptyStr

\* C18: without an absolute entry, the path of the result is the reduction of
\* the segments of the input followed by those of every entry with a pathname
\* (its leading slash stripped) in the order of the entries: every . is
\* dropped and every .. removes the nearest preceding segment that survives.
C18_SegmentsAppendedAndReduced ==
  ReduceRan /\ AbsoluteAt(input.arg.paths) = {}
    => ReducesTo(InputSegments(input.arg.input) \o SegmentsFrom(input.arg.paths, 1))

\* An input and an entry that both hold a . and a .., a second entry with a
\* pathname, and a result whose path has more than one segment.
C18_Witness ==
  /\ ReduceRan
  /\ result.outcome = "return"
  /\ AbsoluteAt(input.arg.paths) = {}
  /\ Contains(result.value.Pathname, SLASH)
  /\ DotDot \in Range(InputSegments(input.arg.input))
  /\ << DOT >> \in Range(InputSegments(input.arg.input))
  /\ \E i, j \in DOMAIN input.arg.paths :
       /\ i # j
       /\ DotDot \in Range(OwnSegments(input.arg.paths[i].Pathname))
       /\ input.arg.paths[j].Pathname # EmptyStr

(***************************************************************************)
(* Reduce: the search.                                                     *)
(***************************************************************************)

\* The values of key in a Search, none when it has not the key.
ValuesOf(search, key) == IF key \in DOMAIN search THEN search[key] ELSE << >>

\* The Search of entry i as it was at the first call.
SearchAtCall(i) ==
  IF input.arg.paths[i].Search = NilRef THEN EmptyMap
  ELSE input.arg.maps[input.arg.paths[i].Search]

\* The values the entries from entry i on hold for key, in their order.
RECURSIVE EntryValuesOf(_, _)
EntryValuesOf(key, i) ==
  IF i > Len(input.arg.paths) THEN << >>
  ELSE ValuesOf(SearchAtCall(i), key) \o EntryValuesOf(key, i + 1)

InputSearch == searchFromQuery(UrlParse(input.arg.input).RawQuery)

AllKeys ==
  DOMAIN InputSearch \cup UNION { DOMAIN SearchAtCall(i) : i \in DOMAIN input.arg.paths }

\* C19: Reduce accumulates the query parameters: the result has every key of
\* the input and of the entries and no other, and the values of a key are
\* those of the input followed by those of each entry, in the order of the
\* entries.
C19_SearchAccumulated ==
  ReduceRan /\ result.outcome = "return"
    => /\ DOMAIN result.value.Search = AllKeys
       /\ \A key \in AllKeys :
            result.value.Search[key] = ValuesOf(InputSearch, key) \o EntryValuesOf(key, 1)

\* The input and two entries hold values for one key, one of them two, and
\* another entry holds a key the input has not.
C19_Witness ==
  /\ ReduceRan
  /\ result.outcome = "return"
  /\ \E key \in DOMAIN InputSearch :
       /\ Cardinality({ i \in DOMAIN input.arg.paths : key \in DOMAIN SearchAtCall(i) }) >= 2
       /\ Len(result.value.Search[key]) >= 4
  /\ DOMAIN result.value.Search # DOMAIN InputSearch

(***************************************************************************)
(* Reduce: what it leaves of its arguments.                                *)
(***************************************************************************)

\* C20: Reduce is pure: after a call the Search maps of the path entries are
\* as they were before it, and a second call with the same path entries and
\* the same input returns what the first returned.
C20_ReduceIsPure ==
  input.fn = "Reduce"
    => /\ heap = input.arg.maps
       /\ pc = "again" => result = earlier[1]

\* C20, first half alone: the Search maps the path entries hold are not
\* written to.
C20_SearchMapsUntouched == input.fn = "Reduce" => heap = input.arg.maps

\* C20, second half alone: the second call returns what the first returned.
C20_SecondCallEqual == input.fn = "Reduce" /\ pc = "again" => result = earlier[1]

\* C20 holds when at most one entry holds a Search that is not empty.
C20_PureWithOneSearch ==
  /\ input.fn = "Reduce"
  /\ Cardinality({ a \in DOMAIN input.arg.maps : MapLen(input.arg.maps[a]) # 0 }) <= 1
  => /\ heap = input.arg.maps
     /\ pc = "again" => result = earlier[1]

(***************************************************************************)
(* C21                                                                     *)
(***************************************************************************)

\* The response codes without a name: those past the table and the
\* unassigned ones in it.
IsUndefinedCode(n) == n >= 24 \/ n \in 12..15

\* C21: for every response code n >= 24 and for the codes 12 to 15,
\* NewRCodeError(n, domain) returns an RCodeError with the code RCODE_<n> and
\* an empty name, and Detail() of n is "Undefined Error.".
C21_UndefinedCodes ==
  /\ Called("NewRCodeError") /\ IsUndefinedCode(input.arg.rcode)
       => /\ result.outcome = "return"
          /\ result.value.Code = Str(<< "R", "C", "O", "D", "E", "_" >>) \o Itoa(input.arg.rcode)
          /\ result.value.Name = ""
  /\ Called("Detail") /\ IsUndefinedCode(input.arg)
       => /\ result.outcome = "return"
          /\ result.value = "Undefined Error."

\* C21 but for the code 24, the length of the two tables.
C21_UndefinedCodesBut24 ==
  /\ Called("NewRCodeError") /\ IsUndefinedCode(input.arg.rcode) /\ input.arg.rcode # 24
       => /\ result.outcome = "return"
          /\ result.value.Code = Str(<< "R", "C", "O", "D", "E", "_" >>) \o Itoa(input.arg.rcode)
          /\ result.value.Name = ""
          /\ result.value.RCode = input.arg.rcode
          /\ result.value.Domain = input.arg.domain
  /\ Called("Detail") /\ IsUndefinedCode(input.arg) /\ input.arg # 24
       => /\ result.outcome = "return"
          /\ result.value = "Undefined Error."

\* The code 24 makes both functions panic.
C21_Code24Panics ==
  /\ Called("NewRCodeError") /\ input.arg.rcode = 24 => result.outcome = "panic"
  /\ Called("Detail") /\ input.arg = 24 => result.outcome = "panic"

(***************************************************************************)
(* C24                                                                     *)
(***************************************************************************)

\* The positions of str where a backslash with three digits starts, read
\* from left to right from position i on.
RECURSIVE DigitEscapesFrom(_, _)
DigitEscapesFrom(str, i) ==
  IF i + 3 > Len(str) THEN {}
  ELSE IF str[i] = BACKSLASH /\ \A j \in 1..3 : str[i + j] \in 48..57
       THEN {i} \cup DigitEscapesFrom(str, i + 4)
  ELSE DigitEscapesFrom(str, i + 1)

\* The decimal value of the three digits after position i.
EscapedNumber(str, i) == 100 * (str[i + 1] - 48) + 10 * (str[i + 2] - 48) + (str[i + 3] - 48)

\* Every digit escape of str names a byte.
EscapesAreBytes(str) == \A i \in DigitEscapesFrom(str, 1) : EscapedNumber(str, i) <= 255

\* str with every digit escape replaced by the byte byteOf gives for its number.
RECURSIVE WithoutDigitEscapes(_, _, _)
WithoutDigitEscapes(str, i, byteOf) ==
  IF i > Len(str) THEN << >>
  ELSE IF i \in DigitEscapesFrom(str, 1)
       THEN << byteOf[EscapedNumber(str, i)] >> \o WithoutDigitEscapes(str, i + 4, byteOf)
  ELSE << str[i] >> \o WithoutDigitEscapes(str, i + 1, byteOf)

\* str with every backslash and the character after it replaced by that
\* character.
RECURSIVE WithoutGenericEscapes(_)
WithoutGenericEscapes(str) ==
  IF Len(str) = 0 THEN << >>
  ELSE IF str[1] = BACKSLASH /\ Len(str) >= 2
       THEN << str[2] >> \o WithoutGenericEscapes(SubSeq(str, 3, Len(str)))
  ELSE << str[1] >> \o WithoutGenericEscapes(Tail(str))

\* The byte of a number that is one.
SameByte == [n \in 0..999 |-> n]

\* The byte the code makes of a number: the number, 511 if it is greater, cut
\* to 8 bits.
CutByte == [n \in 0..999 |-> (IF n > 511 THEN 511 ELSE n) % 256]

\* C24: utf8Value returns the concatenation of the fragments with every
\* escape \DDD replaced by the byte DDD and then every remaining escape \X
\* replaced by X.
C24_AllEscapesDecoded ==
  Called("utf8Value") /\ EscapesAreBytes(Concat(input.arg))
    => result = WithoutGenericEscapes(WithoutDigitEscapes(Concat(input.arg), 1, SameByte))

\* What utf8Value does: the digit escapes alone are replaced, a number that
\* is no byte by the byte the code cuts it to, and every other backslash
\* stays with the character after it.
C24_DigitEscapesDecoded ==
  Called("utf8Value") => result = WithoutDigitEscapes(Concat(input.arg), 1, CutByte)

\* A record in two fragments with a digit escape across them and a quote
\* after a backslash, which is returned as it is.
C24_EscapeSurvives ==
  /\ Called("utf8Value")
  /\ Len(input.arg) >= 2
  /\ DigitEscapesFrom(Concat(input.arg), 1) # {}
  /\ \E i \in 1..(Len(result) - 1) : result[i] = BACKSLASH /\ result[i + 1] = Ord("\"")

(***************************************************************************)
(* C22                                                                     *)
(***************************************************************************)

\* The lookup was called and the reply was a success.
LookupSucceeded ==
  Called("UDPLookup") /\ ~input.arg.res.failed /\ input.arg.res.Rcode = 0

\* The positions of the TXT records in the answer section.
TxtAt(answer) == { i \in DOMAIN answer : answer[i].Rrtype = "TXT" }

\* The entry of a TXT record: its decoded value and its TTL.
EntryOfTxt(record) == LookupEntry(utf8Value(record.Txt), record.Ttl)

\* The entries of the TXT records of the answer section, in its order.
EntriesOfTxt(answer) ==
  [ n \in 1..Cardinality(TxtAt(answer)) |-> EntryOfTxt(Pick(answer, TxtAt(answer))[n]) ]

\* Two lists hold the same entries the same number of times.
SameEntries(a, b) ==
  \A e \in Range(a) \cup Range(b) : Occurrences(a, e) = Occurrences(b, e)

\* C22: on a successful reply the lookup returns one LookupEntry for every TXT
\* record of the answer section, with its decoded value and TTL, and no entry
\* for a record of another type.
C22_OneEntryPerTxtRecord ==
  LookupSucceeded
    => /\ result.outcome = "return"
       /\ result.value.err = NilError
       /\ SameEntries(result.value.txt, EntriesOfTxt(input.arg.res.Answer))

\* What the lookup returns: one entry for every record of the answer
\* section, the zero LookupEntry for a record that is no TXT record, in
\* the order of the values.
C22_OneEntryPerAnswer ==
  LookupSucceeded
    => /\ result.outcome = "return"
       /\ result.value.err = NilError
       /\ Len(result.value.txt) = Len(input.arg.res.Answer)
       /\ SameEntries(result.value.txt,
                      EntriesOfTxt(input.arg.res.Answer)
                        \o [ n \in 1..(Len(input.arg.res.Answer)
                                         - Cardinality(TxtAt(input.arg.res.Answer))) |->
                               LookupEntry(EmptyStr, 0) ])
       /\ IsSortedByValue(result.value.txt)

\* C22 holds for an answer section of TXT records alone.
C22_OneEntryPerRecordOfTxtAnswer ==
  LookupSucceeded /\ TxtAt(input.arg.res.Answer) = DOMAIN input.arg.res.Answer
    => SameEntries(result.value.txt, EntriesOfTxt(input.arg.res.Answer))

(***************************************************************************)
(* C25                                                                     *)
(***************************************************************************)

\* The segments Reduce reduces: those of the last absolute entry and of the
\* entries after it, or those of the input and of all entries.
SegmentsOfCall ==
  IF AbsoluteAt(input.arg.paths) # {}
  THEN SegmentsFrom(input.arg.paths, MaxOf(AbsoluteAt(input.arg.paths)))
  ELSE InputSegments(input.arg.input) \o SegmentsFrom(input.arg.paths, 1)

\* C25: when a .. has no preceding surviving segment, Reduce neither drops
\* it nor returns an error value: the call fails at run time.
C25_ClimbPastStartPanics ==
  ReduceRan /\ ClimbsPastStart(SegmentsOfCall)
    => /\ result.outcome = "panic"
       /\ result.err = NilError

\* The input alone does not climb past its start, an entry does.
C25_Witness ==
  /\ ReduceRan
  /\ result.outcome = "panic"
  /\ AbsoluteAt(input.arg.paths) = {}
  /\ input.arg.input # EmptyStr
  /\ ~ClimbsPastStart(InputSegments(input.arg.input))

(***************************************************************************)
(* C23                                                                     *)
(***************************************************************************)

\* The statements resolveTxtEntries writes about the records of a TXT set.
IsDiagnostic(stmt) ==
  stmt.Code \in {"INVALID_ENTRY", "INVALID_REDIRECT", "UNUSED_ENTRY", "RECURSIVE_DNSLINK_PREFIX"}

\* The first statement of a part of the log that names a domain looked up.
FirstNaming(part) ==
  MinOf({ i \in DOMAIN part : part[i].Code \in {"RESOLVE", "REDIRECT"} } \cup {Len(part) + 1})

\* A diagnostic statement is about a record of the TXT set (the statement of
\* a prefix given twice names the domain of the record instead).
IsAbout(stmt, txt) ==
  \/ stmt.Code = "RECURSIVE_DNSLINK_PREFIX"
  \/ \E i \in DOMAIN txt : txt[i].Value = stmt.Entry

\* The part of the log hop k wrote: diagnostics about its TXT set, then the
\* RESOLVE or REDIRECT statement with its domain, then at most the statement
\* of a refused redirect; for a hop after the first, it starts after the
\* REDIRECT statement of the hop before.
DiagnosticsBeforeNaming(k, part, n) ==
  /\ n <= Len(part)
  /\ part[n].Domain = hops[k].domain
  /\ \A i \in 1..(n - 1) : IsDiagnostic(part[i]) /\ IsAbout(part[i], hops[k].response.txt)
  /\ \A i \in (n + 1)..Len(part) : part[i].Code \in {"ENDLESS_REDIRECT", "TOO_MANY_REDIRECTS"}
  /\ k > 1 => /\ result.Log[hops[k].logFrom].Code = "REDIRECT"
              /\ result.Log[hops[k].logFrom].Domain = hops[k - 1].domain

\* C23: the INVALID_ENTRY, INVALID_REDIRECT and UNUSED_ENTRY statements about
\* the TXT records of a domain stand in the log after the REDIRECT statement of
\* the hop before and before the RESOLVE or REDIRECT statement that names
\* the domain.  It is stated of the last hop: the log only grows, and every
\* hop is the last one in the state after its pass.
C23_DiagnosticsBeforeDomain ==
  Len(hops) > 0
    => DiagnosticsBeforeNaming(Len(hops), HopLog(Len(hops)), FirstNaming(HopLog(Len(hops))))

\* A second hop with two kinds of diagnostics that ends the resolution, after
\* a first hop.
C23_Witness ==
  /\ Returned
  /\ Len(hops) = 2
  /\ \E i, j \in DOMAIN HopLog(2) :
       /\ HopLog(2)[i].Code = "INVALID_ENTRY"
       /\ HopLog(2)[j].Code \in {"INVALID_REDIRECT", "UNUSED_ENTRY"}
  /\ LastOf(result.Log).Code = "RESOLVE"

(***************************************************************************)
(* C26                                                                     *)
(***************************************************************************)

\* The lookup of a name with the prefix was answered: with records, or with
\* NXDOMAIN, which resolve takes for no records.
AnsweredPrefixed(h) ==
  /\ HasPrefix(h.domain, dnsPrefix)
  /\ h.response.err = NilError \/ IsNXDomain(h)

\* No record of the answer starts with dnslink=.
NoDNSLinkRecord(h) ==
  \A i \in DOMAIN h.response.txt : ~HasPrefix(h.response.txt[i].Value, txtPrefix)

\* The answer has records that start with dnslink=, and none of them is a
\* valid entry.
OnlyInvalidRecords(h) ==
  /\ ~NoDNSLinkRecord(h)
  /\ \A i \in DOMAIN h.response.txt : ~IsValidEntry(h.response.txt[i])

\* The name of the lookup without the prefix, as a redirect.
BareOf(h) == URLParts(SubSeq(h.domain, Len(dnsPrefix) + 1, Len(h.domain)), EmptyStr, EmptyMap)

\* What C26 says of hop k.
FallsBackExactlyWhenNoRecord(k) ==
  /\ Followed(k, BareOf(hops[k]))
       <=> NoDNSLinkRecord(hops[k]) /\ Cardinality(ChainBefore(k)) < MaxChain
  /\ (NoDNSLinkRecord(hops[k]) /\ Cardinality(ChainBefore(k)) >= MaxChain)
       => Refused(k, "TOO_MANY_REDIRECTS", BareOf(hops[k]))
  /\ OnlyInvalidRecords(hops[k])
       => /\ Returned
          /\ err = NilError
          /\ result.Links = EmptyMap
          /\ LastOf(result.Log).Code = "RESOLVE"
          /\ LastOf(result.Log).Domain = hops[k].domain

\* C26: in both modes, a lookup of _dnslink.d that is answered is followed by
\* the lookup of d exactly when no record of the answer starts with dnslink=
\* (NXDOMAIN is an answer without records), short of the limit of redirects,
\* at which the redirect is refused instead; an answer whose dnslink= records
\* are all invalid ends the resolution with empty links.  Stated of the last
\* hop in every state, which every hop is after its pass.
C26_FallbackExactlyWithoutRecord ==
  (Len(hops) > 0 /\ AnsweredPrefixed(LastOf(hops))) => FallsBackExactlyWhenNoRecord(Len(hops))

\* Resolve looked up _dnslink.d, got NXDOMAIN, and returned the links of d.
C26_Witness ==
  /\ ~recursive
  /\ Returned
  /\ Len(hops) = 2
  /\ IsNXDomain(hops[1])
  /\ hops[2].domain = BareOf(hops[1]).Domain
  /\ result.Links # EmptyMap

\* An answer with an invalid dnslink= record and a record of another kind
\* ends the resolution at _dnslink.d.
C26_InvalidOnlyReached ==
  /\ Returned
  /\ Len(hops) = 1
  /\ OnlyInvalidRecords(hops[1])
  /\ Len(hops[1].response.txt) = 2
  /\ HasPrefix(hops[1].domain, dnsPrefix)
  /\ result.Links = EmptyMap

(***************************************************************************)
(* C27                                                                     *)
(***************************************************************************)

\* The codes a log of Resolve never holds.
RedirectCodes == {"ENDLESS_REDIRECT", "TOO_MANY_REDIRECTS", "INVALID_REDIRECT", "UNUSED_ENTRY"}

\* C27: Resolve (recursive = FALSE) makes at most two lookups, the first of
\* _dnslink.d and the second, of d, only when the first was answered without a
\* record that starts with dnslink=; its log holds no ENDLESS_REDIRECT,
\* TOO_MANY_REDIRECTS, INVALID_REDIRECT or UNUSED_ENTRY statement.
C27_ResolveFollowsNoEntry ==
  ~recursive =>
    /\ Len(hops) <= 2
    /\ Len(hops) >= 1 => HasPrefix(hops[1].domain, dnsPrefix)
    /\ Len(hops) = 2 => /\ AnsweredPrefixed(hops[1])
                        /\ NoDNSLinkRecord(hops[1])
                        /\ hops[2].domain = BareOf(hops[1]).Domain
    /\ \A i \in DOMAIN result.Log : result.Log[i].Code \notin RedirectCodes

\* Resolve returned after one lookup whose answer holds a valid redirect
\* candidate, an invalid one and an entry of another namespace.
C27_Witness ==
  /\ ~recursive
  /\ Returned
  /\ err = NilError
  /\ Len(hops) = 1
  /\ ValidCandidates(hops[1].response.txt) # {}
  /\ \E i \in DOMAIN hops[1].response.txt :
       IsCandidate(hops[1].response.txt[i]) /\ ~IsValidCandidate(hops[1].response.txt[i])
  /\ \E i \in DOMAIN hops[1].response.txt :
       IsValidEntry(hops[1].response.txt[i]) /\ ~IsCandidate(hops[1].response.txt[i])
  /\ LastOf(result.Log).Code = "RESOLVE"

(***************************************************************************)
(* C28                                                                     *)
(***************************************************************************)

\* The places of the statements with the code in the log.
PlacesOf(code) == { i \in DOMAIN result.Log : result.Log[i].Code = code }

\* The RESOLVE statement at place r is the one C28 describes.
IsTheResolve(r) ==
  /\ result.Log[r].Domain = LastOf(hops).domain
  /\ \/ r = Len(result.Log)
     \/ /\ r = Len(result.Log) - 1
        /\ err = NilError
        /\ LastOf(result.Log).Code \in {"ENDLESS_REDIRECT", "TOO_MANY_REDIRECTS"}
  /\ \A i \in PlacesOf("REDIRECT") : i < r

\* C28: the log of a Result returned after the input passed validation (after
\* at least one lookup) holds exactly one RESOLVE statement; it names the last
\* domain looked up, it is the last statement, or the last but one before an
\* ENDLESS_REDIRECT or TOO_MANY_REDIRECTS statement, and every REDIRECT
\* statement stands before it.
C28_OneResolve ==
  (Returned /\ Len(hops) >= 1) =>
    /\ Cardinality(PlacesOf("RESOLVE")) = 1
    /\ \A r \in PlacesOf("RESOLVE") : IsTheResolve(r)

\* A call that followed two redirects and ended with a fatal lookup error.
C28_Witness ==
  /\ Returned
  /\ Len(hops) = 3
  /\ err # NilError
  /\ Cardinality(PlacesOf("REDIRECT")) = 2
  /\ LastOf(result.Log).Code = "RESOLVE"

\* A call that followed a redirect and ended with a refused one.
C28_RefusalReached ==
  /\ Returned
  /\ Cardinality(PlacesOf("REDIRECT")) >= 1
  /\ LastOf(result.Log).Code = "ENDLESS_REDIRECT"

(***************************************************************************)
(* C29                                                                     *)
(***************************************************************************)

\* The call ended with the outcome DONE: no error, and the RESOLVE statement
\* last in the log.
IsDone ==
  /\ Returned
  /\ err = NilError
  /\ Len(result.Log) > 0
  /\ LastOf(result.Log).Code = "RESOLVE"

\* C29: a call that returns otherwise than with the outcome DONE (a refused
\* redirect, an invalid input, a fatal lookup error) returns empty links and
\* an empty path.
C29_LinksAndPathOnlyWhenDone ==
  (Returned /\ ~IsDone) => (result.Links = EmptyMap /\ result.Path = << >>)

\* A refused redirect after statements whose pathname getPathFromLog would
\* have returned.
C29_Witness ==
  /\ Returned
  /\ err = NilError
  /\ LastOf(result.Log).Code \in {"ENDLESS_REDIRECT", "TOO_MANY_REDIRECTS"}
  /\ \E i \in DOMAIN result.Log :
       /\ result.Log[i].Code \in {"REDIRECT", "RESOLVE"}
       /\ Len(result.Log[i].Pathname) > 0
  /\ result.Path = << >>
  /\ result.Links = EmptyMap

\* The other outcomes without links: an invalid input, and a fatal error.
C29_InvalidInputReached == Returned /\ Len(hops) = 0 /\ result.Path = << >>

C29_FatalErrorReached ==
  Returned /\ err # NilError /\ Len(hops) = 2 /\ result.Links = EmptyMap

(***************************************************************************)
(* C30                                                                     *)
(***************************************************************************)

\* The hops that looked up the domain.
LookupsOf(domain) == { k \in DOMAIN hops : hops[k].domain = domain }

\* Hop k chooses a redirect to a domain looked up before it, or to its own.
RedirectsBack(k) ==
  /\ ChoosesRedirect(hops[k])
  /\ ChosenTarget(hops[k]).Domain \in ChainBefore(k) \cup {hops[k].domain}

\* C30: no domain is looked up more than once in a call, and a hop that
\* chooses a redirect to a domain already looked up, its own included, is
\* the last: the log ends with RESOLVE and ENDLESS_REDIRECT.
C30_NoDomainLookedUpTwice ==
  /\ \A k \in DOMAIN hops : Cardinality(LookupsOf(hops[k].domain)) = 1
  /\ \A k \in DOMAIN hops :
       (RedirectsBack(k) /\ (k < Len(hops) \/ Returned))
         => Refused(k, "ENDLESS_REDIRECT", ChosenTarget(hops[k]))

\* Hop k redirects to its own domain for the first time.
FirstSelfRedirect(k) ==
  /\ ChoosesRedirect(hops[k])
  /\ ChosenTarget(hops[k]).Domain = hops[k].domain
  /\ hops[k].domain \notin ChainBefore(k)

\* What the code does: a redirect to a domain looked up by an earlier hop is
\* refused with ENDLESS_REDIRECT; a domain whose records redirect to itself
\* is looked up a second time (when the chain is not full) and refused then,
\* and no domain is looked up more than twice.
C30_TwiceOnlyOnSelfRedirect ==
  /\ \A k \in DOMAIN hops : Cardinality(LookupsOf(hops[k].domain)) <= 2
  /\ \A j, k \in DOMAIN hops :
       (j < k /\ hops[j].domain = hops[k].domain)
         => (k = j + 1 /\ FirstSelfRedirect(j))
  /\ \A k \in DOMAIN hops :
       (ChoosesRedirect(hops[k]) /\ ChosenTarget(hops[k]).Domain \in ChainBefore(k)
          /\ (k < Len(hops) \/ Returned))
         => Refused(k, "ENDLESS_REDIRECT", ChosenTarget(hops[k]))

\* A self-redirect looked up twice and refused after the second lookup.
C30_SelfRedirectLookedUpTwice ==
  /\ Returned
  /\ Len(hops) = 2
  /\ hops[1].domain = hops[2].domain
  /\ FirstSelfRedirect(1)
  /\ Refused(2, "ENDLESS_REDIRECT", ChosenTarget(hops[2]))

====
